---- MODULE Spec2Model ----
(***************************************************************************)
(* opavm: version manager for the opa and regal binaries.                  *)
(*                                                                         *)
(* The model covers the tool catalog, the persistent state store           *)
(* (config.py), the version resolver (resolver.py), the release client's   *)
(* asset selection (github.py), the downloader (download.py) and the       *)
(* installer (installer.py).                                               *)
(*                                                                         *)
(* Strings whose content matters (versions, tags, pin-file text) are       *)
(* sequences of tokens, so that strip(), startswith("v") and the "v"       *)
(* prefixing of tags are computed and not assumed.  Files are records      *)
(* with an existence flag; a file that is being written has a length in    *)
(* chunks.  Every process of the operating system that runs opavm is a     *)
(* member of Procs and executes one operation at a time, step by step.     *)
(***************************************************************************)
EXTENDS Integers, Sequences, FiniteSets, TLC

\* ------------------------------------------------------------------ bounds

\* Deepest directory of the modelled chain root(0) / 1 / ... / MaxDepth.
MaxDepth == 2
\* Number of write chunks of a serialized state document.
DocLen == 2
\* Number of chunks of a downloaded binary.
FileLen == 2

\* ----------------------------------------------------------------- strings

WS == {" ", "\n"}

RECURSIVE lstrip(_)
lstrip(s) == IF s # <<>> /\ Head(s) \in WS THEN lstrip(Tail(s)) ELSE s

RECURSIVE rstrip(_)
rstrip(s) ==
    IF s # <<>> /\ s[Len(s)] \in WS THEN rstrip(SubSeq(s, 1, Len(s) - 1)) ELSE s

\* str.strip()
strip(s) == rstrip(lstrip(s))

\* str.startswith(t) for a one-token prefix
startswith(s, t) == s # <<>> /\ Head(s) = t

V1 == <<"1">>
V2 == <<"2">>
LATEST == <<"latest">>

\* ----------------------------------------------------------------- catalog

\* catalog.SUPPORTED_TOOLS: the descriptors carry exactly these five fields
\* (a repository is the sequence of the pieces of "owner/repo").
SUPPORTED_TOOLS ==
    [opa |-> [name |-> "opa", display_name |-> "OPA", binary_base |-> "opa",
              default_repo |-> <<"open-policy-agent", "/", "opa">>,
              repo_env_var |-> "OPAVM_GITHUB_REPO"],
     regal |-> [name |-> "regal", display_name |-> "Regal", binary_base |-> "regal",
                default_repo |-> <<"StyraInc", "/", "regal">>,
                repo_env_var |-> "OPAVM_REGAL_GITHUB_REPO"]]

Tools == DOMAIN SUPPORTED_TOOLS

\* catalog.get_tool, on already normalised names
get_tool(tool) ==
    IF tool \in DOMAIN SUPPORTED_TOOLS
    THEN [ok |-> TRUE, spec |-> SUPPORTED_TOOLS[tool], err |-> ""]
    ELSE [ok |-> FALSE, spec |-> SUPPORTED_TOOLS["opa"], err |-> "Unknown tool."]

\* Attribute access on a frozen dataclass instance: a field the class does
\* not declare raises AttributeError.
getattr(obj, field) ==
    IF field \in DOMAIN obj
    THEN [ok |-> TRUE, val |-> obj[field], err |-> ""]
    ELSE [ok |-> FALSE, val |-> "", err |-> "AttributeError"]

\* -------------------------------------------------------------- JSON state

JNull == [t |-> "null", s |-> <<>>]
JNum == [t |-> "num", s |-> <<>>]
JMissing == [t |-> "missing", s |-> <<>>]
JStr(s) == [t |-> "str", s |-> s]

isStr(v) == v.t = "str"

\* config._default_state
\* (dict: the document is a JSON object; gds_dict: its "global_defaults" is
\* one; extra: it has top-level keys other than these two)
default_state ==
    [dict |-> TRUE, global_default |-> JNull, gds_dict |-> TRUE,
     global_defaults |-> [k \in Tools |-> JMissing], extra |-> FALSE]

\* A file holds the first len of the DocLen chunks of the JSON text of doc;
\* utf8 is whether its bytes decode as UTF-8.
NoFile == [ex |-> FALSE, doc |-> default_state, len |-> 0, utf8 |-> TRUE]
FullFile(doc) == [ex |-> TRUE, doc |-> doc, len |-> DocLen, utf8 |-> TRUE]

\* config.load_state applied to the content of state.json:
\* path.read_text(encoding="utf-8") raises UnicodeDecodeError on bytes that
\* do not decode, json.loads raises JSONDecodeError on malformed text, and
\* only the latter is caught.
load_state(file) ==
    IF ~file.ex THEN [ok |-> TRUE, state |-> default_state, err |-> ""]
    ELSE IF ~file.utf8
    THEN [ok |-> FALSE, state |-> default_state, err |-> "UnicodeDecodeError"]
    ELSE IF file.len < DocLen
    THEN [ok |-> FALSE, state |-> default_state, err |-> "Corrupt state file."]
    ELSE IF ~file.doc.dict THEN [ok |-> TRUE, state |-> default_state, err |-> ""]
    ELSE [ok |-> TRUE, err |-> "",
          state |->
            [dict |-> TRUE,
             extra |-> FALSE,
             global_default |->
                IF file.doc.global_default = JMissing THEN JNull
                ELSE file.doc.global_default,
             gds_dict |-> TRUE,
             global_defaults |->
                IF file.doc.gds_dict
                THEN [k \in Tools |->
                        IF isStr(file.doc.global_defaults[k])
                        THEN file.doc.global_defaults[k] ELSE JMissing]
                ELSE [k \in Tools |-> JMissing]]]

None == [some |-> FALSE, s |-> <<>>]
Some(s) == [some |-> TRUE, s |-> s]

\* Variant of global_default_of that falls back to the legacy key for every
\* tool.
global_default_of_any(state, tool) ==
    LET value == state.global_defaults[tool]
        legacy == state.global_default
    IN  IF state.gds_dict /\ isStr(value) /\ strip(value.s) # <<>> THEN Some(value.s)
        ELSE IF isStr(legacy) /\ strip(legacy.s) # <<>> THEN Some(legacy.s)
        ELSE None

\* config.get_global_default, after its load_state
global_default_of(state, tool) ==
    LET value == state.global_defaults[tool]
        legacy == state.global_default
    IN  IF state.gds_dict /\ isStr(value) /\ strip(value.s) # <<>> THEN Some(value.s)
        ELSE IF tool = "opa" /\ isStr(legacy) /\ strip(legacy.s) # <<>>
        THEN Some(legacy.s)
        ELSE None

\* config.get_global_default applied to the content of state.json
get_global_default(file, tool) ==
    LET loaded == load_state(file)
    IN  IF ~loaded.ok THEN [err |-> loaded.err, val |-> None]
        ELSE [err |-> "", val |-> global_default_of(loaded.state, tool)]

\* Variant of with_global_default that starts from an empty mapping
\* (state["global_defaults"] = {tool: version}).
with_global_default_fresh(state, tool, version) ==
    [state EXCEPT !.global_defaults =
                      [k \in Tools |-> IF k = tool THEN JStr(version) ELSE JMissing],
                  !.gds_dict = TRUE,
                  !.global_default = IF tool = "opa" THEN JStr(version) ELSE @]

\* config.set_global_default: the modification between load and save
with_global_default(state, tool, version) ==
    LET base == IF state.gds_dict THEN state.global_defaults
                ELSE [k \in Tools |-> JMissing]
    IN  [state EXCEPT !.global_defaults = [base EXCEPT ![tool] = JStr(version)],
                      !.gds_dict = TRUE,
                      !.global_default =
                          IF tool = "opa" THEN JStr(version) ELSE @]

\* ---------------------------------------------------------------- resolver

PinNames == {".opa-version", ".regal-version"}
Dirs == 0 .. MaxDepth

NoPin == [ex |-> FALSE, text |-> <<>>]
PinFile(text) == [ex |-> TRUE, text |-> text]

\* Pin-file texts a project may hold: a blank line, a padded version line.
PinTexts == {<<"\n">>, <<" ", "2", "\n">>}

\* resolver.pin_filename
pin_filename(tool) ==
    LET t == get_tool(tool)
    IN  IF ~t.ok THEN [ok |-> FALSE, val |-> "", err |-> t.err]
        ELSE getattr(t.spec, "pin_filename")

\* The loop of resolver.find_pin_file over [current, *current.parents]:
\* directory d, then its parent d - 1, down to the root 0, whose parents are
\* empty.
RECURSIVE walk_parents(_, _, _)
walk_parents(pinfs, d, filename) ==
    IF pinfs[d][filename].ex THEN [found |-> TRUE, dir |-> d]
    ELSE IF d = 0 THEN [found |-> FALSE, dir |-> 0]
    ELSE walk_parents(pinfs, d - 1, filename)

\* resolver.find_pin_file
find_pin_file(pinfs, start, tool) ==
    LET fn == pin_filename(tool)
    IN  IF ~fn.ok
        THEN [ok |-> FALSE, err |-> fn.err, found |-> FALSE, dir |-> 0, name |-> ""]
        ELSE LET w == walk_parents(pinfs, start, fn.val)
             IN  [ok |-> TRUE, err |-> "", found |-> w.found, dir |-> w.dir,
                  name |-> fn.val]

Resolved(version, reason, dir, name) ==
    [err |-> "", version |-> version, reason |-> reason, pin_dir |-> dir,
     pin_name |-> name]
Raised(err) ==
    [err |-> err, version |-> <<>>, reason |-> "", pin_dir |-> 0, pin_name |-> ""]

\* resolver.resolve_version
resolve_version(pinfs, file, start, tool) ==
    LET t == get_tool(tool)
        pin == find_pin_file(pinfs, start, t.spec.name)
        pinned == IF pin.ok /\ pin.found THEN strip(pinfs[pin.dir][pin.name].text)
                  ELSE <<>>
        loaded == load_state(file)
        gd == global_default_of(loaded.state, t.spec.name)
        hint == getattr(t.spec, "pin_filename")
    IN  IF ~t.ok THEN Raised(t.err)
        ELSE IF ~pin.ok THEN Raised(pin.err)
        ELSE IF pin.found /\ pinned # <<>>
        THEN Resolved(pinned, "pinned via", pin.dir, pin.name)
        ELSE IF ~loaded.ok THEN Raised(loaded.err)
        ELSE IF gd.some /\ gd.s # <<>> THEN Resolved(gd.s, "global default", 0, "")
        ELSE IF ~hint.ok THEN Raised(hint.err)
        ELSE Raised("No version configured.")

\* ---------------------------------------------------------------- platform

\* Supported hosts opavm is run on: (platform.system(), platform.machine()).
Hosts ==
    { [system |-> "Linux", machine |-> "x86_64"],
      [system |-> "Linux", machine |-> "aarch64"],
      [system |-> "Windows", machine |-> "AMD64"] }

\* str.lower() on the host strings
lower(str) ==
    CASE str = "Linux" -> "linux"
      [] str = "Darwin" -> "darwin"
      [] str = "Windows" -> "windows"
      [] str = "WINDOWS" -> "windows"
      [] str = "FreeBSD" -> "freebsd"
      [] str = "AMD64" -> "amd64"
      [] str = "ARM64" -> "arm64"
      [] OTHER -> str

\* Variant of normalized_os_arch without the rule for Windows on arm64.
normalized_os_arch_any_windows(h) ==
    LET sys_name == lower(h.system)
        machine == lower(h.machine)
        arch == IF machine \in {"x86_64", "amd64"} THEN "amd64" ELSE "arm64"
    IN  IF sys_name \notin {"darwin", "linux", "windows"}
        THEN [ok |-> FALSE, os |-> "", arch |-> "", err |-> "Unsupported OS"]
        ELSE IF machine \notin {"x86_64", "amd64", "aarch64", "arm64"}
        THEN [ok |-> FALSE, os |-> "", arch |-> "", err |-> "Unsupported architecture"]
        ELSE [ok |-> TRUE, os |-> sys_name, arch |-> arch, err |-> ""]

\* platform.normalized_os_arch
normalized_os_arch(h) ==
    LET sys_name == lower(h.system)
        machine == lower(h.machine)
        arch == IF machine \in {"x86_64", "amd64"} THEN "amd64" ELSE "arm64"
    IN  IF sys_name \notin {"darwin", "linux", "windows"}
        THEN [ok |-> FALSE, os |-> "", arch |-> "", err |-> "Unsupported OS"]
        ELSE IF machine \notin {"x86_64", "amd64", "aarch64", "arm64"}
        THEN [ok |-> FALSE, os |-> "", arch |-> "", err |-> "Unsupported architecture"]
        ELSE IF sys_name = "windows" /\ arch # "amd64"
        THEN [ok |-> FALSE, os |-> "", arch |-> "", err |-> "Unsupported architecture"]
        ELSE [ok |-> TRUE, os |-> sys_name, arch |-> arch, err |-> ""]

\* Asset and file names are sequences of their parts:
\* f"{binary_base}_{os}_{arch}{extension}" is <<binary_base, os, arch, ext>>.

\* platform.asset_name
asset_name(os_name, arch, binary_base) ==
    <<binary_base, os_name, arch, IF os_name = "windows" THEN ".exe" ELSE "">>

\* platform.asset_name_candidates
asset_name_candidates(os_name, arch, binary_base) ==
    LET primary == asset_name(os_name, arch, binary_base)
    IN  IF binary_base = "opa" /\ os_name \in {"darwin", "linux"} /\ arch = "arm64"
        THEN <<primary, <<"opa", os_name, arch, "_static">>>>
        ELSE <<primary>>

\* platform.binary_filename
binary_filename(os_name, binary_base) ==
    IF os_name = "windows" THEN <<binary_base, ".exe">> ELSE <<binary_base, "">>

\* installer._asset_candidates
asset_candidates(tool, os_name, arch) ==
    IF tool = "opa" THEN asset_name_candidates(os_name, arch, "opa")
    ELSE LET os_token == CASE os_name = "darwin" -> "Darwin"
                           [] os_name = "linux" -> "Linux"
                           [] OTHER -> "Windows"
             arch_token == IF arch = "amd64" THEN "x86_64" ELSE "arm64"
         IN  << <<"regal", os_token, arch_token,
                  IF os_name = "windows" THEN ".exe" ELSE "">> >>

\* ---------------------------------------------------------- release client

\* str.split(sep) on a sequence of pieces
RECURSIVE split(_, _)
split(str, sep) ==
    IF str = <<>> THEN << <<>> >>
    ELSE IF Head(str) = sep THEN << <<>> >> \o split(Tail(str), sep)
    ELSE LET rest == split(Tail(str), sep)
         IN  << <<Head(str)>> \o Head(rest) >> \o Tail(rest)

\* github.validate_repo
validate_repo(repo) ==
    LET normalized == strip(repo)
        parts == split(normalized, "/")
    IN  IF Len(parts) # 2 \/ parts[1] = <<>> \/ parts[2] = <<>>
        THEN [ok |-> FALSE, repo |-> <<>>, err |-> "Invalid repository value."]
        ELSE [ok |-> TRUE, repo |-> normalized, err |-> ""]

\* github.configured_repo(default_repo): its only input is its argument, the
\* process environment is not read.
configured_repo(default_repo) ==
    LET repo == strip(default_repo)
        parts == split(repo, "/")
    IN  IF Len(parts) # 2 \/ parts[1] = <<>> \/ parts[2] = <<>>
        THEN [ok |-> FALSE, repo |-> <<>>, err |-> "Invalid repository value."]
        ELSE [ok |-> TRUE, repo |-> repo, err |-> ""]

\* The httpx.HTTPError instances a lookup may raise: type, and for an
\* HTTPStatusError the status code and the x-ratelimit-remaining header of
\* the response ("" when the header is absent).
HttpErrors ==
    { [type |-> t, status |-> "", remaining |-> ""] :
          t \in {"ProxyError", "ConnectError", "ReadTimeout"} }
    \cup { [type |-> "HTTPStatusError", status |-> c, remaining |-> r] :
              c \in {"401", "403", "404", "500"}, r \in {"", "0", "1"} }

GitHubLookupError(message, hint) == [message |-> message, hint |-> hint]

\* Variant of raise_friendly_http_error that tests for 401/403 before the
\* rate limit.
raise_friendly_http_error_auth_first(exc) ==
    IF exc.type = "ProxyError"
    THEN GitHubLookupError("Failed to query GitHub releases.", <<"Proxy error. Check HTTP_PROXY/HTTPS_PROXY or corporate proxy settings.">>)
    ELSE IF exc.type = "ConnectError"
    THEN GitHubLookupError("Failed to query GitHub releases.",
                           <<"Network connection failed. Check internet connectivity, DNS, firewall, or VPN.">>)
    ELSE IF exc.type = "HTTPStatusError"
    THEN IF exc.status \in {"401", "403"}
         THEN GitHubLookupError("GitHub request was unauthorized.",
                                <<"Check OPAVM_GITHUB_TOKEN and repository access.">>)
         ELSE IF exc.status = "403" /\ exc.remaining = "0"
         THEN GitHubLookupError("GitHub API rate limit exceeded.",
                                <<"Set OPAVM_GITHUB_TOKEN or retry after the rate limit resets.">>)
         ELSE IF exc.status = "404"
         THEN GitHubLookupError("Requested release was not found.",
                                <<"Check version tag and access permissions.">>)
         ELSE GitHubLookupError("Failed to query GitHub releases.",
                                <<"GitHub API responded with HTTP ", exc.status, ".">>)
    ELSE GitHubLookupError("Failed to query GitHub releases.",
                           <<"Check network connectivity, proxy settings, or GitHub availability.">>)

\* github._raise_friendly_http_error
raise_friendly_http_error(exc) ==
    IF exc.type = "ProxyError"
    THEN GitHubLookupError("Failed to query GitHub releases.", <<"Proxy error. Check HTTP_PROXY/HTTPS_PROXY or corporate proxy settings.">>)
    ELSE IF exc.type = "ConnectError"
    THEN GitHubLookupError("Failed to query GitHub releases.",
                           <<"Network connection failed. Check internet connectivity, DNS, firewall, or VPN.">>)
    ELSE IF exc.type = "HTTPStatusError"
    THEN IF exc.status = "403" /\ exc.remaining = "0"
         THEN GitHubLookupError("GitHub API rate limit exceeded.",
                                <<"Set OPAVM_GITHUB_TOKEN or retry after the rate limit resets.">>)
         ELSE IF exc.status = "404"
         THEN GitHubLookupError("Requested release was not found.",
                                <<"Check version tag and access permissions.">>)
         ELSE IF exc.status \in {"401", "403"}
         THEN GitHubLookupError("GitHub request was unauthorized.",
                                <<"Check OPAVM_GITHUB_TOKEN and repository access.">>)
         ELSE GitHubLookupError("Failed to query GitHub releases.",
                                <<"GitHub API responded with HTTP ", exc.status, ".">>)
    ELSE GitHubLookupError("Failed to query GitHub releases.",
                           <<"Check network connectivity, proxy settings, or GitHub availability.">>)

\* github._normalize_tag
normalize_tag(version) ==
    IF version = LATEST THEN version
    ELSE IF startswith(version, "v") THEN version
    ELSE <<"v">> \o version

\* Variant of version_from_tag that keeps the tag as it is.
version_from_tag_keep(tag) == tag

\* github._version_from_tag
version_from_tag(tag) == IF startswith(tag, "v") THEN Tail(tag) ELSE tag

\* The tag of the repository's latest release.
LatestTag == <<"v", "2">>

\* The tag_name of the release the API returns for a requested version.
tag_name_for(version) ==
    IF version = LATEST THEN LatestTag ELSE normalize_tag(version)

\* github.fetch_release / releases_api_url: the URL requested for `version`;
\* `repo` is the optional argument (None, or Some(r) with r possibly empty).
release_url(version, repo) ==
    LET tag == normalize_tag(version)
        selected_repo == IF repo.some /\ repo.s # <<>> THEN validate_repo(repo.s)
                         ELSE configured_repo(<<"open-policy-agent", "/", "opa">>)
        base_url == <<"https://api.github.com/repos", selected_repo.repo, "releases">>
    IN  IF ~selected_repo.ok THEN [err |-> selected_repo.err, url |-> <<>>]
        ELSE [err |-> "",
              url |-> IF version = LATEST THEN base_url \o <<"latest">>
                      ELSE base_url \o <<"tags", tag>>]

sha256_name(name) == Append(name, ".sha256")
Asset(name) == [name |-> name, url |-> <<"https", name>>]

\* Asset lists a release may carry (in the order the API returns them).
ReleaseAssets(tool) ==
    IF tool = "opa"
    THEN LET A == <<"opa", "linux", "amd64", "">>
             B == <<"opa", "linux", "arm64", "">>
             S == <<"opa", "linux", "arm64", "_static">>
             W == <<"opa", "windows", "amd64", ".exe">>
         IN  { <<>>,
               <<Asset(A), Asset(B), Asset(W)>>,
               <<Asset(S), Asset(sha256_name(S)), Asset(A), Asset(sha256_name(A)),
                 Asset(sha256_name(W)), Asset(W)>>,
               <<Asset(S), Asset(B), Asset(sha256_name(B))>> }
    ELSE LET R == <<"regal", "Linux", "x86_64", "">>
             Q == <<"regal", "Linux", "arm64", "">>
             X == <<"regal", "Windows", "x86_64", ".exe">>
         IN  { <<>>,
               <<Asset(R), Asset(Q), Asset(X)>>,
               <<Asset(sha256_name(R)), Asset(R), Asset(X), Asset(sha256_name(X))>> }

\* First index of `assets` whose name is `name`, 0 if there is none.
RECURSIVE index_of(_, _, _)
index_of(assets, name, i) ==
    IF i > Len(assets) THEN 0
    ELSE IF assets[i].name = name THEN i
    ELSE index_of(assets, name, i + 1)

\* The loops of github.pick_asset_url: candidates in priority order, for
\* each the release's assets in their order; the first match wins.
RECURSIVE pick_loop(_, _)
pick_loop(assets, expected_names) ==
    IF expected_names = <<>> THEN None
    ELSE LET i == index_of(assets, Head(expected_names), 1)
         IN  IF i > 0 THEN Some(assets[i].url)
             ELSE pick_loop(assets, Tail(expected_names))

\* The same loops nested the other way round: assets in their order, for
\* each the candidates.
RECURSIVE pick_loop_by_asset(_, _)
pick_loop_by_asset(assets, expected_names) ==
    IF assets = <<>> THEN None
    ELSE IF \E i \in 1 .. Len(expected_names) : expected_names[i] = Head(assets).name
    THEN Some(Head(assets).url)
    ELSE pick_loop_by_asset(Tail(assets), expected_names)

\* Variant of pick_asset_url that returns the first asset of the release
\* that matches any candidate.
pick_asset_url_by_asset(assets, expected_names) ==
    LET found == pick_loop_by_asset(assets, expected_names)
    IN  IF found.some THEN [ok |-> TRUE, url |-> found.s, err |-> "", expected |-> <<>>]
        ELSE [ok |-> FALSE, url |-> <<>>, err |-> "No matching asset found",
              expected |-> expected_names]

\* github.pick_asset_url; its GitHubLookupError reads "No matching asset
\* found for <expected names>."
pick_asset_url(assets, expected_names) ==
    LET found == pick_loop(assets, expected_names)
    IN  IF found.some THEN [ok |-> TRUE, url |-> found.s, err |-> "", expected |-> <<>>]
        ELSE [ok |-> FALSE, url |-> <<>>, err |-> "No matching asset found",
              expected |-> expected_names]

\* github.checksum_asset_url
checksum_asset_url(assets, asset_name_) ==
    LET i == index_of(assets, sha256_name(asset_name_), 1)
    IN  IF i > 0 THEN Some(assets[i].url) ELSE None

\* installer.install: the loop that sets selected_asset_name
RECURSIVE first_present(_, _)
first_present(assets, candidates) ==
    IF candidates = <<>> THEN <<>>
    ELSE IF index_of(assets, Head(candidates), 1) > 0 THEN Head(candidates)
    ELSE first_present(assets, Tail(candidates))

\* installer.install: selected_asset_name, with its fallback to the first
\* candidate
selected_asset_name(assets, expected_assets) ==
    LET found == first_present(assets, expected_assets)
    IN  IF found = <<>> /\ expected_assets # <<>> THEN Head(expected_assets)
        ELSE found

\* ---------------------------------------------------------------- download

\* What a download may deliver: a binary that runs, or bytes that do not.
Payloads == {"good", "broken"}

\* A whitespace-separated token of a checksum text: `hex` says whether all
\* its characters are hexadecimal digits, `n` is its length, `val` names the
\* digits up to case and `upper` whether letters are in upper case.
HexLen == 64
Token(hex, n, val, upper) == [hex |-> hex, n |-> n, val |-> val, upper |-> upper]
Digest(val) == Token(TRUE, HexLen, val, FALSE)

\* str.lower() of a token
token_lower(tok) == [tok EXCEPT !.upper = FALSE]

\* download.sha256_file: hexdigest() of the file's bytes, lower-case
sha256_file(file) == Digest(<<file.data, file.len>>)

\* The digest the publisher computed over the complete binary it built: one
\* that runs, or one that does not run on this host.
GoodDigest == Digest(<<"good", FileLen>>)
BrokenDigest == Digest(<<"broken", FileLen>>)
NoDigest == Digest(<<>>)

\* installer.install: `expected_checksum != actual_checksum`
checksum_mismatch_len(expected_checksum, actual_checksum) ==
    expected_checksum.n # actual_checksum.n

checksum_mismatch(expected_checksum, actual_checksum) ==
    expected_checksum # actual_checksum

\* Checksum texts a release may publish, as lines of tokens (a blank line is
\* the empty sequence): "<digest>  <name>" for either binary, the digest
\* after a blank line and in upper case, a text without any digest, and a
\* text whose digest is on the second line after a comment line.
ChecksumTexts ==
    { << <<GoodDigest, Token(FALSE, 15, "name", FALSE)>> >>,
      << <<BrokenDigest, Token(FALSE, 15, "name", FALSE)>> >>,
      << <<>>, <<[GoodDigest EXCEPT !.upper = TRUE]>> >>,
      << <<Token(FALSE, 9, "Not", FALSE), Token(TRUE, HexLen, "x", FALSE)>>,
         <<Token(TRUE, HexLen - 1, "short", FALSE)>> >>,
      << <<Token(FALSE, 1, "#", FALSE)>>, <<GoodDigest>> >> }

\* Variant of parse_checksum_text that returns the token as it stands in the
\* text.
RECURSIVE parse_checksum_text_as_is(_)
parse_checksum_text_as_is(lines) ==
    IF lines = <<>>
    THEN [ok |-> FALSE, digest |-> Digest(<<>>), err |-> "Invalid checksum file."]
    ELSE LET line == Head(lines)
         IN  IF line = <<>> THEN parse_checksum_text_as_is(Tail(lines))
             ELSE IF line[1].n = HexLen /\ line[1].hex
             THEN [ok |-> TRUE, digest |-> line[1], err |-> ""]
             ELSE parse_checksum_text_as_is(Tail(lines))

\* download.parse_checksum_text
RECURSIVE parse_checksum_text(_)
parse_checksum_text(lines) ==
    IF lines = <<>>
    THEN [ok |-> FALSE, digest |-> Digest(<<>>), err |-> "Invalid checksum file."]
    ELSE LET line == Head(lines)
         IN  IF line = <<>> THEN parse_checksum_text(Tail(lines))
             ELSE IF line[1].n = HexLen /\ line[1].hex
             THEN [ok |-> TRUE, digest |-> token_lower(line[1]), err |-> ""]
             ELSE parse_checksum_text(Tail(lines))

\* --------------------------------------------------------------- installer

\* Variant of tool_versions_dir that keeps every tool under versions/.
tool_versions_dir_shared(tool) == <<"versions">>

\* config.tool_versions_dir, as a path relative to the base directory
tool_versions_dir(tool) ==
    IF tool = "opa" THEN <<"versions">> ELSE <<"tools", tool, "versions">>

Roots == {tool_versions_dir(t) : t \in Tools}

\* The operating-system processes that run opavm.
Procs == {"p1", "p2"}

\* Names a version directory may carry.
DirNames == {V1, V2, <<"v", "1">>, <<"v", "2">>, LATEST}

\* Names of the files of a version directory: the binary with and without
\* ".exe", and the mkstemp(prefix="opa.", suffix=".tmp") file of a process.
TmpNameShared(p) == <<"opa.tmp", "p1">>
TmpName(p) == <<"opa.tmp", p>>
FileNames ==
    {<<SUPPORTED_TOOLS[t].binary_base, e>> : t \in Tools, e \in {"", ".exe"}}
        \cup {TmpName(p) : p \in Procs}

NoBin == [ex |-> FALSE, data |-> "", len |-> 0, exec |-> FALSE]
NoDir == [ex |-> FALSE, files |-> [n \in FileNames |-> NoBin]]
EmptyDisk == [r \in Roots |-> [v \in DirNames |-> NoDir]]

Path(root, dir, name) == [root |-> root, dir |-> dir, name |-> name]

\* Path.exists() for a file of a version directory
exists(d, path) ==
    d[path.root][path.dir].ex /\ d[path.root][path.dir].files[path.name].ex

file_at(d, path) == d[path.root][path.dir].files[path.name]

\* installer._platform_binary_path
platform_binary_path(version, os_name, tool) ==
    Path(tool_versions_dir(tool), version,
         binary_filename(os_name, SUPPORTED_TOOLS[tool].binary_base))

\* installer.binary_path, given the detected os_name
binary_path(d, os_name, version, tool) ==
    LET base == SUPPORTED_TOOLS[tool].binary_base
        preferred == platform_binary_path(version, os_name, tool)
        alternate_name == IF preferred.name = <<base, "">> THEN <<base, ".exe">>
                          ELSE <<base, "">>
        alternate == [preferred EXCEPT !.name = alternate_name]
    IN  IF exists(d, preferred) THEN preferred
        ELSE IF exists(d, alternate) THEN alternate
        ELSE preferred

\* installer.is_installed, given the detected os_name
is_installed(d, os_name, version, tool) ==
    exists(d, binary_path(d, os_name, version, tool))

\* installer.verify_binary: `<binary> version` exits 0 only for a complete,
\* executable, working binary
verify_binary(file) ==
    file.ex /\ file.exec /\ file.data = "good" /\ file.len = FileLen

\* The set installer.installed_versions lists (before sorting)
installed_set(d, tool) ==
    LET base == SUPPORTED_TOOLS[tool].binary_base
        root == tool_versions_dir(tool)
    IN  {v \in DirNames :
            /\ d[root][v].ex
            /\ \/ d[root][v].files[<<base, "">>].ex
               \/ d[root][v].files[<<base, ".exe">>].ex}

\* The order in which sorted() puts two str values: by code point, from the
\* first character ("1" < "2" < "l" < "v")
token_rank(t) ==
    CASE t = "1" -> 1 [] t = "2" -> 2 [] t = "latest" -> 3 [] t = "v" -> 4
      [] OTHER -> 0
RECURSIVE str_lt(_, _)
str_lt(a, b) ==
    IF b = <<>> THEN FALSE
    ELSE IF a = <<>> THEN TRUE
    ELSE IF Head(a) = Head(b) THEN str_lt(Tail(a), Tail(b))
    ELSE token_rank(Head(a)) < token_rank(Head(b))

\* Variant of sorted that returns the list in the order it was built.
sorted_as_listed(s) == s

\* sorted(versions) of installer.installed_versions
RECURSIVE sorted(_)
sorted(s) ==
    IF s = <<>> THEN <<>>
    ELSE LET rest == sorted(SubSeq(s, 1, Len(s) - 1))
             v == s[Len(s)]
             k == Cardinality({i \in 1..Len(rest) : ~str_lt(v, rest[i])})
         IN  SubSeq(rest, 1, k) \o <<v>> \o SubSeq(rest, k + 1, Len(rest))

\* root.iterdir(): the entries of a versions directory, in any order
iterdir(d, root) ==
    LET names == {v \in DirNames : d[root][v].ex}
    IN  {s \in [1..Cardinality(names) -> names] :
            \A i, j \in 1..Cardinality(names) : i # j => s[i] # s[j]}

\* installer.installed_versions: the loop over the entries iterdir yielded
RECURSIVE versions_loop(_, _, _)
versions_loop(d, tool, entries) ==
    IF entries = <<>> THEN <<>>
    ELSE LET base == SUPPORTED_TOOLS[tool].binary_base
             entry == d[tool_versions_dir(tool)][Head(entries)]
             marked == \/ entry.files[<<base, "">>].ex
                       \/ entry.files[<<base, ".exe">>].ex
         IN  (IF entry.ex /\ marked THEN <<Head(entries)>> ELSE <<>>)
                 \o versions_loop(d, tool, Tail(entries))

\* installer.installed_versions(tool), given what iterdir yielded
installed_versions(d, tool, entries) == sorted(versions_loop(d, tool, entries))

\* runner.resolved_binary_path: the hint of its VersionNotInstalledError
install_hint(tool, version) ==
    IF tool = "opa" THEN <<"Run: opavm install", version>>
    ELSE <<"Run: opavm install", tool, version>>

\* runner.resolved_binary_path, given the detected os_name
resolved_binary_path(pinfs, file, d, os_name, start, tool) ==
    LET t == get_tool(tool)
        r == resolve_version(pinfs, file, start, t.spec.name)
        binary == binary_path(d, os_name, r.version, t.spec.name)
        none == [err |-> "", hint |-> <<>>, version |-> <<>>, reason |-> "",
                 path |-> Path(<<>>, <<>>, <<>>)]
    IN  IF ~t.ok THEN [none EXCEPT !.err = t.err]
        ELSE IF r.err # "" THEN [none EXCEPT !.err = r.err]
        ELSE IF ~exists(d, binary)
        THEN [none EXCEPT !.err = "Version not installed.",
                          !.hint = install_hint(t.spec.name, r.version)]
        ELSE [none EXCEPT !.version = r.version, !.reason = r.reason,
                          !.path = binary]

NoCalls == [fetch |-> 0, download |-> 0, checksum |-> 0, verify |-> 0]
NoInst ==
    [resolved |-> <<>>, assets |-> <<>>, selected |-> <<>>, url |-> <<>>,
     events |-> <<>>, calls |-> NoCalls, err |-> "",
     expected_checksum |-> NoDigest, actual_checksum |-> NoDigest, seen |-> NoBin,
     endpoint |-> <<>>, expected |-> <<>>, listed |-> <<>>]

\* Variant of remove_tree that deletes the binary and leaves the directory.
remove_binary_only(d, root, version) ==
    [d EXCEPT ![root][version].files = [n \in FileNames |-> NoBin]]

\* download.remove_tree on a version directory: shutil.rmtree if it exists
remove_tree(d, root, version) ==
    IF d[root][version].ex THEN [d EXCEPT ![root][version] = NoDir] ELSE d

\* ------------------------------------------------------------------- state

VARIABLES
    pins,       \* pins[d][name]: the pin file of that name in directory d
    stateFile,  \* state.json
    stateTmp,   \* stateTmp[p]: the state.*.tmp file process p created
    layout,     \* whether ensure_layout has created versions/ and shims/
    pc,         \* pc[p]: where process p is in its operation
    op,         \* op[p]: the operation process p runs, with its arguments
    mem,        \* mem[p]: the state dict process p holds in memory
    res,        \* res[p]: outcome of the last operation p completed
    started,    \* documents handed to a save_state call so far
    lastRename, \* who renamed into state.json last, and the dict it saved
    host,       \* the machine: platform.system(), platform.machine()
    disk,       \* disk[root][version]: a version directory and its files
    inst        \* inst[p]: locals, status events and calls of p's install

vars == <<pins, stateFile, stateTmp, layout, pc, op, mem, res, started, lastRename,
          host, disk, inst>>

\* What the state store and the resolver never touch.
instVars == <<host, disk, inst>>
\* What the installer never touches.
storeVars == <<pins, stateFile, stateTmp, mem, started, lastRename>>

NoOp == [name |-> "", tool |-> "opa", version |-> <<>>, start |-> 0]
NoRes == [name |-> "", tool |-> "opa", version |-> <<>>, start |-> 0,
          out |-> Raised("")]

\* A legacy document written by an older release (no per-tool mapping), and
\* a hand-edited one with a non-string entry.
LegacyDoc ==
    [dict |-> TRUE, global_default |-> JStr(V1), gds_dict |-> FALSE,
     global_defaults |-> [k \in Tools |-> JMissing], extra |-> FALSE]
EditedDoc ==
    [dict |-> TRUE, global_default |-> JMissing, gds_dict |-> TRUE,
     global_defaults |-> [k \in Tools |-> IF k = "regal" THEN JNum ELSE JStr(V2)],
     extra |-> TRUE]
InitDocs == {LegacyDoc, EditedDoc}

InitCommon ==
    /\ stateTmp = [p \in Procs |-> NoFile]
    /\ pc = [p \in Procs |-> "idle"]
    /\ op = [p \in Procs |-> NoOp]
    /\ mem = [p \in Procs |-> default_state]
    /\ res = [p \in Procs |-> NoRes]
    /\ started = {}
    /\ lastRename = [p |-> "none", doc |-> default_state]
    /\ inst = [p \in Procs |-> NoInst]

\* The running operation of p returns or raises: its outcome is recorded and
\* its locals are dropped.
Finish(p, out) ==
    /\ pc' = [pc EXCEPT ![p] = "idle"]
    /\ op' = [op EXCEPT ![p] = NoOp]
    /\ mem' = [mem EXCEPT ![p] = default_state]
    /\ res' = [res EXCEPT ![p] =
                 [name |-> op[p].name, tool |-> op[p].tool,
                  version |-> op[p].version, start |-> op[p].start,
                  out |-> out]]

\* ------------------------------------------------------------- state store

\* A process calls config.load_state on its own (a reader).
LoadStart(p) ==
    /\ pc[p] = "idle"
    /\ pc' = [pc EXCEPT ![p] = "load_exists"]
    /\ op' = [op EXCEPT ![p] = [NoOp EXCEPT !.name = "load_state"]]
    /\ UNCHANGED instVars
    /\ UNCHANGED <<pins, stateFile, stateTmp, layout, mem, res, started, lastRename>>

\* A process calls config.set_global_default(tool, version).
SetGlobalDefaultStart(p, tool, version) ==
    /\ pc[p] = "idle"
    /\ pc' = [pc EXCEPT ![p] = "load_exists"]
    /\ op' = [op EXCEPT ![p] =
                [NoOp EXCEPT !.name = "set_global_default", !.tool = tool,
                             !.version = version]]
    /\ UNCHANGED instVars
    /\ UNCHANGED <<pins, stateFile, stateTmp, layout, mem, res, started, lastRename>>

\* A process calls config.get_global_default(tool).
GetGlobalDefaultStart(p, tool) ==
    /\ pc[p] = "idle"
    /\ pc' = [pc EXCEPT ![p] = "load_exists"]
    /\ op' = [op EXCEPT ![p] =
                [NoOp EXCEPT !.name = "get_global_default", !.tool = tool]]
    /\ UNCHANGED instVars
    /\ UNCHANGED <<pins, stateFile, stateTmp, layout, mem, res, started, lastRename>>

\* What follows load_state in the running operation: set_global_default
\* goes on to update and save, get_global_default picks the value and
\* returns it (reason "value") or None (reason "none").
AfterLoad(p, state) ==
    IF op[p].name = "set_global_default"
    THEN /\ pc' = [pc EXCEPT ![p] = "save_mkstemp"]
         /\ mem' = [mem EXCEPT ![p] = state]
         /\ UNCHANGED <<op, res>>
    ELSE IF op[p].name = "get_global_default"
    THEN LET gd == global_default_of(state, op[p].tool)
         IN  Finish(p, IF gd.some THEN Resolved(gd.s, "value", 0, "")
                       ELSE Resolved(<<>>, "none", 0, ""))
    ELSE Finish(p, Raised(""))

\* load_state: `if not path.exists(): return _default_state()`
LoadExists(p) ==
    /\ pc[p] = "load_exists"
    /\ IF stateFile.ex
       THEN /\ pc' = [pc EXCEPT ![p] = "load_read"]
            /\ UNCHANGED <<op, mem, res>>
       ELSE AfterLoad(p, default_state)
    /\ UNCHANGED instVars
    /\ UNCHANGED <<pins, stateFile, stateTmp, layout, started, lastRename>>

\* load_state: json.loads(path.read_text()) and the defensive parsing
LoadRead(p) ==
    /\ pc[p] = "load_read"
    /\ LET r == load_state(stateFile)
       IN  IF r.ok THEN AfterLoad(p, r.state)
           ELSE Finish(p, Raised(r.err))
    /\ UNCHANGED instVars
    /\ UNCHANGED <<pins, stateFile, stateTmp, layout, started, lastRename>>

\* set_global_default's update of the loaded dict, then save_state up to
\* tempfile.mkstemp: ensure_layout() and an empty, uniquely named temp file.
SaveMkstemp(p) ==
    /\ pc[p] = "save_mkstemp"
    /\ LET data == with_global_default(mem[p], op[p].tool, op[p].version)
       IN  /\ mem' = [mem EXCEPT ![p] = data]
           /\ started' = started \cup {data}
           /\ stateTmp' = [stateTmp EXCEPT ![p] = [ex |-> TRUE, doc |-> data, len |-> 0, utf8 |-> TRUE]]
    /\ layout' = TRUE
    /\ pc' = [pc EXCEPT ![p] = "save_write"]
    /\ UNCHANGED instVars
    /\ UNCHANGED <<pins, stateFile, op, res, lastRename>>

\* Variant of SaveWrite that writes the document into state.json itself
\* (open(path, "w")) instead of into the temp file.
SaveWriteInPlace(p) ==
    /\ pc[p] = "save_write"
    /\ stateTmp[p].len < DocLen
    /\ stateTmp' = [stateTmp EXCEPT ![p].len = @ + 1]
    /\ stateFile' = [stateTmp[p] EXCEPT !.len = @ + 1]
    /\ pc' = [pc EXCEPT ![p] =
                IF stateTmp[p].len + 1 = DocLen THEN "save_replace" ELSE "save_write"]
    /\ UNCHANGED instVars
    /\ UNCHANGED <<pins, layout, op, mem, res, started, lastRename>>

\* save_state: json.dump, the newline, flush and fsync reach the temp file
\* chunk by chunk.
SaveWrite(p) ==
    /\ pc[p] = "save_write"
    /\ stateTmp[p].len < DocLen
    /\ stateTmp' = [stateTmp EXCEPT ![p].len = @ + 1]
    /\ pc' = [pc EXCEPT ![p] =
                IF stateTmp[p].len + 1 = DocLen THEN "save_replace" ELSE "save_write"]
    /\ UNCHANGED instVars
    /\ UNCHANGED <<pins, stateFile, layout, op, mem, res, started, lastRename>>

\* Variant of SaveReplace that keeps an existing state.json (a rename that
\* does not overwrite its target).
SaveReplaceKeepExisting(p) ==
    /\ pc[p] = "save_replace"
    /\ stateFile' = IF stateFile.ex THEN stateFile ELSE stateTmp[p]
    /\ stateTmp' = [stateTmp EXCEPT ![p] = NoFile]
    /\ lastRename' = [p |-> p, doc |-> mem[p]]
    /\ pc' = [pc EXCEPT ![p] = "save_finally"]
    /\ op' = [op EXCEPT ![p].start = 0]
    /\ UNCHANGED instVars
    /\ UNCHANGED <<pins, layout, mem, res, started>>

\* save_state: os.replace(tmp_name, path)
SaveReplace(p) ==
    /\ pc[p] = "save_replace"
    /\ stateFile' = stateTmp[p]
    /\ stateTmp' = [stateTmp EXCEPT ![p] = NoFile]
    /\ lastRename' = [p |-> p, doc |-> mem[p]]
    /\ pc' = [pc EXCEPT ![p] = "save_finally"]
    /\ op' = [op EXCEPT ![p].start = 0]
    /\ UNCHANGED instVars
    /\ UNCHANGED <<pins, layout, mem, res, started>>

\* save_state: a write, fsync or rename raises OSError; control passes to
\* the finally clause with the error pending (op.start = 1 marks it).
SaveFail(p) ==
    /\ pc[p] \in {"save_write", "save_replace"}
    /\ pc' = [pc EXCEPT ![p] = "save_finally"]
    /\ op' = [op EXCEPT ![p].start = 1]
    /\ UNCHANGED instVars
    /\ UNCHANGED <<pins, stateFile, stateTmp, layout, mem, res, started, lastRename>>

\* Variant of SaveFinally without the cleanup: the temp file stays where it
\* is.
SaveFinallyKeepTemp(p) ==
    /\ pc[p] = "save_finally"
    /\ Finish(p, IF op[p].start = 1 THEN Raised("OSError") ELSE Raised(""))
    /\ UNCHANGED instVars
    /\ UNCHANGED <<pins, stateFile, stateTmp, layout, started, lastRename>>

\* save_state: the finally clause removes the temp file if it still exists;
\* set_global_default then returns, or the pending error propagates.
SaveFinally(p) ==
    /\ pc[p] = "save_finally"
    /\ stateTmp' = [stateTmp EXCEPT ![p] = NoFile]
    /\ Finish(p, IF op[p].start = 1 THEN Raised("OSError") ELSE Raised(""))
    /\ UNCHANGED instVars
    /\ UNCHANGED <<pins, stateFile, layout, started, lastRename>>

StateStoreStep(p) ==
    \/ LoadExists(p)
    \/ LoadRead(p)
    \/ SaveMkstemp(p)
    \/ SaveWrite(p)
    \/ SaveReplace(p)
    \/ SaveFail(p)
    \/ SaveFinally(p)

\* ----------------------------------------- specification: the state store
\* Two processes read and update state.json concurrently.

InitState ==
    /\ InitCommon
    /\ host = [system |-> "Linux", machine |-> "x86_64"]
    /\ disk = EmptyDisk
    /\ pins = [d \in Dirs |-> [n \in PinNames |-> NoPin]]
    /\ \/ layout = FALSE /\ stateFile = NoFile
       \/ layout = TRUE /\ stateFile \in {FullFile(d) : d \in InitDocs}

NextState ==
    \E p \in Procs :
        \/ LoadStart(p)
        \/ \E tool \in Tools : SetGlobalDefaultStart(p, tool, V1)
        \/ StateStoreStep(p)

SpecState == InitState /\ [][NextState]_vars

\* ------------------------------------------- specification: the resolver
\* One process; pin files come and go in the directory chain, the global
\* default is set, and versions are resolved from any directory.

\* A pin file is written into directory d (`pin.write_text(...)`).
WritePin(d, name, text) ==
    /\ \A p \in Procs : pc[p] = "idle"
    /\ pins[d][name] # PinFile(text)
    /\ pins' = [pins EXCEPT ![d][name] = PinFile(text)]
    /\ UNCHANGED instVars
    /\ UNCHANGED <<stateFile, stateTmp, layout, pc, op, mem, res, started, lastRename>>

\* A pin file is deleted by the user.
RemovePin(d, name) ==
    /\ \A p \in Procs : pc[p] = "idle"
    /\ pins[d][name].ex
    /\ pins' = [pins EXCEPT ![d][name] = NoPin]
    /\ UNCHANGED instVars
    /\ UNCHANGED <<stateFile, stateTmp, layout, pc, op, mem, res, started, lastRename>>

\* resolver.resolve_version(start, tool), start to end
ResolveVersion(p, start, tool) ==
    /\ pc[p] = "idle"
    /\ res' = [res EXCEPT ![p] =
                 [name |-> "resolve_version", tool |-> tool, version |-> <<>>,
                  start |-> start,
                  out |-> resolve_version(pins, stateFile, start, tool)]]
    /\ UNCHANGED instVars
    /\ UNCHANGED <<pins, stateFile, stateTmp, layout, pc, op, mem, started, lastRename>>

\* resolver.find_pin_file(start, tool), start to end
FindPinFile(p, start, tool) ==
    /\ pc[p] = "idle"
    /\ LET f == find_pin_file(pins, start, tool)
       IN  res' = [res EXCEPT ![p] =
                 [name |-> "find_pin_file", tool |-> tool, version |-> <<>>,
                  start |-> start,
                  out |-> IF ~f.ok THEN Raised(f.err)
                          ELSE IF f.found THEN Resolved(<<>>, "found", f.dir, f.name)
                          ELSE Resolved(<<>>, "none", 0, "")]]
    /\ UNCHANGED instVars
    /\ UNCHANGED <<pins, stateFile, stateTmp, layout, pc, op, mem, started, lastRename>>

InitResolve ==
    /\ InitCommon
    /\ host = [system |-> "Linux", machine |-> "x86_64"]
    /\ disk = EmptyDisk
    /\ pins = [d \in Dirs |-> [n \in PinNames |-> NoPin]]
    /\ layout = FALSE
    /\ stateFile = NoFile

NextResolve ==
    \/ \E d \in Dirs, name \in PinNames, text \in PinTexts : WritePin(d, name, text)
    \/ \E d \in Dirs, name \in PinNames : RemovePin(d, name)
    \/ \E start \in Dirs, tool \in Tools : ResolveVersion("p1", start, tool)
    \/ \E start \in Dirs, tool \in Tools : FindPinFile("p1", start, tool)
    \/ \E tool \in Tools : SetGlobalDefaultStart("p1", tool, V1)
    \/ StateStoreStep("p1")

SpecResolve == InitResolve /\ [][NextResolve]_vars

\* ------------------------------------------------------- installer actions

\* The file p's download writes to, and the final path of the binary.
Target(p) ==
    platform_binary_path(inst[p].resolved, normalized_os_arch(host).os, op[p].tool)
Temp(p) == [Target(p) EXCEPT !.name = TmpName(p)]

Emit(p, event) == [inst[p] EXCEPT !.events = Append(@, event)]

\* install returns or raises: the outcome is recorded; the release, the
\* events and the call counts of the invocation stay for inspection.
InstallFinish(p, rec, out) ==
    /\ pc' = [pc EXCEPT ![p] = "idle"]
    /\ op' = [op EXCEPT ![p] = NoOp]
    /\ inst' = [inst EXCEPT ![p] =
                  [rec EXCEPT !.url = <<>>, !.err = ""]]
    /\ res' = [res EXCEPT ![p] =
                 [name |-> op[p].name, tool |-> op[p].tool,
                  version |-> op[p].version, start |-> 0, out |-> out]]

\* install: get_tool, ensure_layout, on_status("resolving")
InstallStart(p, tool, version) ==
    /\ pc[p] = "idle"
    /\ pc' = [pc EXCEPT ![p] = "i_fetch"]
    /\ op' = [op EXCEPT ![p] =
                [NoOp EXCEPT !.name = "install", !.tool = tool, !.version = version]]
    /\ layout' = TRUE
    /\ inst' = [inst EXCEPT ![p] = [NoInst EXCEPT !.events = <<"resolving">>]]
    /\ UNCHANGED <<host, disk, res>>
    /\ UNCHANGED storeVars

\* install: normalized_os_arch(), then github.fetch_release: the API answers
\* with an error or with the release of the requested tag.
InstallFetch(p) ==
    /\ pc[p] = "i_fetch"
    /\ LET plat == normalized_os_arch(host)
           repo == SUPPORTED_TOOLS[op[p].tool].default_repo
           lookup == release_url(op[p].version, Some(repo))
           called == [inst[p] EXCEPT !.calls.fetch = @ + 1, !.endpoint = lookup.url]
       IN  IF ~plat.ok
           THEN InstallFinish(p, inst[p], Raised(plat.err))
           ELSE IF lookup.err # ""
           THEN InstallFinish(p, inst[p], Raised(lookup.err))
           ELSE \/ InstallFinish(p, called, Raised("GitHubLookupError"))
                \/ \E assets \in ReleaseAssets(op[p].tool) :
                     /\ inst' = [inst EXCEPT ![p] =
                          [called EXCEPT
                             !.resolved = version_from_tag(tag_name_for(op[p].version)),
                             !.assets = assets]]
                     /\ pc' = [pc EXCEPT ![p] = "i_check"]
                     /\ UNCHANGED <<op, res>>
    /\ UNCHANGED <<host, disk, layout>>
    /\ UNCHANGED storeVars

\* install: the is_installed short cut on `version`, else the choice of the
\* asset and on_status("downloading")
InstallCheckOn(p, version) ==
    /\ pc[p] = "i_check"
    /\ LET plat == normalized_os_arch(host)
           expected_assets == asset_candidates(op[p].tool, plat.os, plat.arch)
           picked == pick_asset_url(inst[p].assets, expected_assets)
       IN  IF is_installed(disk, plat.os, version, op[p].tool)
           THEN InstallFinish(p, Emit(p, "already_installed"),
                              Resolved(inst[p].resolved, "installed", 0, ""))
           ELSE IF ~picked.ok
           THEN InstallFinish(p, [inst[p] EXCEPT !.expected = picked.expected],
                              Raised(picked.err))
           ELSE /\ inst' = [inst EXCEPT ![p] =
                     [Emit(p, "downloading") EXCEPT
                        !.selected = selected_asset_name(inst[p].assets, expected_assets),
                        !.url = picked.url]]
                /\ pc' = [pc EXCEPT ![p] = "d_mkstemp"]
                /\ UNCHANGED <<op, res>>
    /\ UNCHANGED <<host, disk, layout>>
    /\ UNCHANGED storeVars

\* Variant of InstallCheck that reports "downloading" and creates the version
\* directory before it looks for the asset.
InstallCheckDownloadFirst(p) ==
    /\ pc[p] = "i_check"
    /\ LET plat == normalized_os_arch(host)
           expected_assets == asset_candidates(op[p].tool, plat.os, plat.arch)
           picked == pick_asset_url(inst[p].assets, expected_assets)
       IN  IF is_installed(disk, plat.os, inst[p].resolved, op[p].tool)
           THEN /\ InstallFinish(p, Emit(p, "already_installed"),
                                 Resolved(inst[p].resolved, "installed", 0, ""))
                /\ UNCHANGED disk
           ELSE IF ~picked.ok
           THEN /\ InstallFinish(p, [Emit(p, "downloading") EXCEPT
                                       !.expected = picked.expected],
                                 Raised(picked.err))
                /\ disk' = [disk EXCEPT ![Target(p).root][Target(p).dir].ex = TRUE]
           ELSE /\ inst' = [inst EXCEPT ![p] =
                     [Emit(p, "downloading") EXCEPT
                        !.selected = selected_asset_name(inst[p].assets, expected_assets),
                        !.url = picked.url]]
                /\ pc' = [pc EXCEPT ![p] = "d_mkstemp"]
                /\ UNCHANGED <<op, res, disk>>
    /\ UNCHANGED <<host, layout>>
    /\ UNCHANGED storeVars

\* Variant of InstallCheck that tests the requested version string instead
\* of the resolved one.
InstallCheckRequested(p) == InstallCheckOn(p, op[p].version)

\* install: `if is_installed(resolved_version, tool=spec.name)` and what
\* follows it up to on_status("downloading")
InstallCheck(p) == InstallCheckOn(p, inst[p].resolved)

\* download_binary: destination.parent.mkdir, tempfile.mkstemp, os.close
DlMkstemp(p) ==
    /\ pc[p] = "d_mkstemp"
    /\ disk' = [disk EXCEPT ![Temp(p).root][Temp(p).dir] =
                  [ex |-> TRUE,
                   files |-> [@.files EXCEPT ![TmpName(p)] =
                                [ex |-> TRUE, data |-> "", len |-> 0, exec |-> FALSE]]]]
    /\ inst' = [inst EXCEPT ![p].calls.download = @ + 1]
    /\ pc' = [pc EXCEPT ![p] = "d_get"]
    /\ UNCHANGED <<host, layout, op, res>>
    /\ UNCHANGED storeVars

\* download_binary: httpx.stream + raise_for_status fail, or the response
\* starts and temp_path.open("wb") truncates the temp file.
DlGet(p) ==
    /\ pc[p] = "d_get"
    /\ \/ /\ inst' = [inst EXCEPT ![p].err = "Download failed."]
          /\ pc' = [pc EXCEPT ![p] = "d_finally"]
          /\ UNCHANGED disk
       \/ \E data \in Payloads :
          /\ disk' = [disk EXCEPT ![Temp(p).root][Temp(p).dir].files[TmpName(p)] =
                        [ex |-> TRUE, data |-> data, len |-> 0, exec |-> FALSE]]
          /\ pc' = [pc EXCEPT ![p] = "d_write"]
          /\ UNCHANGED inst
    /\ UNCHANGED <<host, layout, op, res>>
    /\ UNCHANGED storeVars

\* download_binary: one chunk is written; after the last one, flush and
\* fsync.
DlWrite(p) ==
    /\ pc[p] = "d_write"
    /\ file_at(disk, Temp(p)).len < FileLen
    /\ disk' = [disk EXCEPT ![Temp(p).root][Temp(p).dir].files[TmpName(p)].len = @ + 1]
    /\ pc' = [pc EXCEPT ![p] =
                IF file_at(disk, Temp(p)).len + 1 = FileLen THEN "d_chmod"
                ELSE "d_write"]
    /\ UNCHANGED <<host, layout, op, res, inst>>
    /\ UNCHANGED storeVars

\* download_binary: the stream breaks (httpx.HTTPError) or a write, chmod or
\* replace fails (OSError); the except clauses turn it into DownloadError.
DlFail(p) ==
    /\ \/ /\ pc[p] = "d_write"
          /\ \E e \in {"Download failed.", "Install failed."} :
                inst' = [inst EXCEPT ![p].err = e]
       \/ /\ pc[p] \in {"d_chmod", "d_replace"}
          /\ inst' = [inst EXCEPT ![p].err = "Install failed."]
    /\ pc' = [pc EXCEPT ![p] = "d_finally"]
    /\ UNCHANGED <<host, disk, layout, op, res>>
    /\ UNCHANGED storeVars

\* Variant of DlChmod that leaves the mode of the temp file alone (the
\* executable bits would be set only after the rename).
DlChmodLate(p) ==
    /\ pc[p] = "d_chmod"
    /\ pc' = [pc EXCEPT ![p] = "d_replace"]
    /\ UNCHANGED <<host, disk, layout, op, res, inst>>
    /\ UNCHANGED storeVars

\* download_binary: temp_path.chmod(mode | 0o111)
DlChmod(p) ==
    /\ pc[p] = "d_chmod"
    /\ disk' = [disk EXCEPT ![Temp(p).root][Temp(p).dir].files[TmpName(p)].exec = TRUE]
    /\ pc' = [pc EXCEPT ![p] = "d_replace"]
    /\ UNCHANGED <<host, layout, op, res, inst>>
    /\ UNCHANGED storeVars

\* download_binary: os.replace(temp_path, destination)
DlReplace(p) ==
    /\ pc[p] = "d_replace"
    /\ disk' = [disk EXCEPT ![Temp(p).root][Temp(p).dir].files =
                  [@ EXCEPT ![Target(p).name] = file_at(disk, Temp(p)),
                            ![TmpName(p)] = NoBin]]
    /\ pc' = [pc EXCEPT ![p] = "d_finally"]
    /\ UNCHANGED <<host, layout, op, res, inst>>
    /\ UNCHANGED storeVars

\* Variant of DlFinally that swallows a pending DownloadError: install goes
\* on to the checksum step as if the download had succeeded.
DlFinallySwallow(p) ==
    /\ pc[p] = "d_finally"
    /\ disk' = [disk EXCEPT ![Temp(p).root][Temp(p).dir].files[TmpName(p)] = NoBin]
    /\ pc' = [pc EXCEPT ![p] = "i_checksum"]
    /\ inst' = [inst EXCEPT ![p].err = ""]
    /\ UNCHANGED <<op, res>>
    /\ UNCHANGED <<host, layout>>
    /\ UNCHANGED storeVars

\* Variant of DlFinally without the unlink: the temp file stays in the
\* version directory.
DlFinallyKeepTemp(p) ==
    /\ pc[p] = "d_finally"
    /\ IF inst[p].err # ""
       THEN InstallFinish(p, inst[p], Raised(inst[p].err))
       ELSE /\ pc' = [pc EXCEPT ![p] = "i_checksum"]
            /\ UNCHANGED <<op, res, inst>>
    /\ UNCHANGED <<host, disk, layout>>
    /\ UNCHANGED storeVars

\* download_binary: the finally clause unlinks the temp file if it is still
\* there; a pending DownloadError leaves install, else install goes on.
DlFinally(p) ==
    /\ pc[p] = "d_finally"
    /\ disk' = [disk EXCEPT ![Temp(p).root][Temp(p).dir].files[TmpName(p)] = NoBin]
    /\ IF inst[p].err # ""
       THEN InstallFinish(p, inst[p], Raised(inst[p].err))
       ELSE /\ pc' = [pc EXCEPT ![p] = "i_checksum"]
            /\ UNCHANGED <<op, res, inst>>
    /\ UNCHANGED <<host, layout>>
    /\ UNCHANGED storeVars

\* install: checksum_asset_url; when the release carries the checksum
\* asset, on_status("verifying_checksum"), fetch_text, parse_checksum_text,
\* sha256_file(target) and the comparison.
InstallChecksum(p) ==
    /\ pc[p] = "i_checksum"
    /\ LET checksum_url == checksum_asset_url(inst[p].assets, inst[p].selected)
           rec == [Emit(p, "verifying_checksum") EXCEPT !.calls.checksum = @ + 1]
           actual_checksum == sha256_file(file_at(disk, Target(p)))
       IN  IF ~checksum_url.some
           THEN /\ pc' = [pc EXCEPT ![p] = "i_verify"]
                /\ UNCHANGED <<op, res, inst>>
           ELSE \/ InstallFinish(p, rec, Raised("Checksum fetch failed."))
                \/ \E text \in ChecksumTexts :
                     LET parsed == parse_checksum_text(text)
                     IN  IF ~parsed.ok
                         THEN InstallFinish(p, rec, Raised(parsed.err))
                         ELSE IF checksum_mismatch(parsed.digest, actual_checksum)
                         THEN InstallFinish(p,
                                  [rec EXCEPT !.expected_checksum = parsed.digest,
                                              !.actual_checksum = actual_checksum],
                                  Raised("Checksum verification failed."))
                         ELSE /\ inst' = [inst EXCEPT ![p] =
                                  [rec EXCEPT !.expected_checksum = parsed.digest,
                                              !.actual_checksum = actual_checksum]]
                              /\ pc' = [pc EXCEPT ![p] = "i_verify"]
                              /\ UNCHANGED <<op, res>>
    /\ UNCHANGED <<host, disk, layout>>
    /\ UNCHANGED storeVars

\* Variant of InstallVerify that reports "done" before verify_binary has run.
InstallVerifyDoneFirst(p) ==
    /\ pc[p] = "i_verify"
    /\ LET rec == [Emit(p, "verifying") EXCEPT !.calls.verify = @ + 1,
                                              !.events = Append(@, "done")]
       IN  IF ~verify_binary(file_at(disk, Target(p)))
           THEN InstallFinish(p, rec, Raised("Installed binary failed verification."))
           ELSE InstallFinish(p, rec, Resolved(inst[p].resolved, "installed", 0, ""))
    /\ UNCHANGED <<host, disk, layout>>
    /\ UNCHANGED storeVars

\* install: on_status("verifying"), verify_binary(target), on_status("done")
InstallVerify(p) ==
    /\ pc[p] = "i_verify"
    /\ LET rec == [Emit(p, "verifying") EXCEPT !.calls.verify = @ + 1]
       IN  IF ~verify_binary(file_at(disk, Target(p)))
           THEN InstallFinish(p, rec, Raised("Installed binary failed verification."))
           ELSE InstallFinish(p, [rec EXCEPT !.events = Append(@, "done")],
                              Resolved(inst[p].resolved, "installed", 0, ""))
    /\ UNCHANGED <<host, disk, layout>>
    /\ UNCHANGED storeVars

InstallStep(p) ==
    \/ InstallFetch(p)
    \/ InstallCheck(p)
    \/ DlMkstemp(p)
    \/ DlGet(p)
    \/ DlWrite(p)
    \/ DlFail(p)
    \/ DlChmod(p)
    \/ DlReplace(p)
    \/ DlFinally(p)
    \/ InstallChecksum(p)
    \/ InstallVerify(p)

\* installer.uninstall(version, tool), start to end: download.remove_tree
\* deletes the version directory with everything in it.
Uninstall(p, tool, version) ==
    /\ pc[p] = "idle"
    /\ LET plat == normalized_os_arch(host)
           out == IF ~plat.ok THEN Raised(plat.err)
                  ELSE IF ~is_installed(disk, plat.os, version, tool)
                  THEN Raised("Version not installed.")
                  ELSE Resolved(version, "uninstalled", 0, "")
       IN  /\ disk' = IF out.err = ""
                      THEN remove_tree(disk, tool_versions_dir(tool), version)
                      ELSE disk
           /\ res' = [res EXCEPT ![p] =
                        [name |-> "uninstall", tool |-> tool, version |-> version,
                         start |-> 0, out |-> out]]
    /\ UNCHANGED <<host, layout, pc, op, inst>>
    /\ UNCHANGED storeVars

\* A reader: installer.binary_path(version, tool), then a look at the file
\* it names (is_installed is whether that file exists).
ReadBinary(p, tool, version) ==
    /\ pc[p] = "idle"
    /\ LET path == binary_path(disk, normalized_os_arch(host).os, version, tool)
           found == exists(disk, path)
       IN  /\ inst' = [inst EXCEPT ![p] =
                        [NoInst EXCEPT !.seen = IF found THEN file_at(disk, path)
                                               ELSE NoBin]]
           /\ res' = [res EXCEPT ![p] =
                        [name |-> "binary_path", tool |-> tool, version |-> version,
                         start |-> 0,
                         out |-> IF found THEN Resolved(version, "exists", 0, "")
                                 ELSE Resolved(version, "absent", 0, "")]]
    /\ UNCHANGED <<host, disk, layout, pc, op>>
    /\ UNCHANGED storeVars

\* ------------------------------------------- specification: the installer
\* One process installs and uninstalls versions of both tools, one
\* operation after the other, on any of the hosts.

\* What the user asks to install: opa by version, by tag and as "latest",
\* regal by version.
InstallRequests ==
    { [tool |-> "opa", version |-> V1],
      [tool |-> "opa", version |-> <<"v", "1">>],
      [tool |-> "opa", version |-> LATEST],
      [tool |-> "regal", version |-> V1] }

\* A version directory left by an installation made under another operating
\* system: the binary carries the other platform's filename.
ForeignDisk(h) ==
    LET other == IF lower(h.system) = "windows" THEN <<"opa", "">> ELSE <<"opa", ".exe">>
    IN  [EmptyDisk EXCEPT ![<<"versions">>][V1] =
          [ex |-> TRUE,
           files |-> [NoDir.files EXCEPT ![other] =
                        [ex |-> TRUE, data |-> "good", len |-> FileLen, exec |-> TRUE]]]]

Init ==
    /\ InitCommon
    /\ pins = [d \in Dirs |-> [n \in PinNames |-> NoPin]]
    /\ layout = FALSE
    /\ stateFile = NoFile
    /\ host \in Hosts
    /\ disk \in {EmptyDisk, ForeignDisk(host)}

Next ==
    \/ \E r \in InstallRequests : InstallStart("p1", r.tool, r.version)
    \/ InstallStep("p1")
    \/ \E tool \in Tools, version \in {V1, V2} : Uninstall("p1", tool, version)

Spec == Init /\ [][Next]_vars

\* ------------------------------ specification: concurrent installations
\* Two processes install opa concurrently on one host while either may
\* also look up the binary of a version.

ConcurrentRequests ==
    { [tool |-> "opa", version |-> V1] }

InitDownload ==
    /\ InitCommon
    /\ pins = [d \in Dirs |-> [n \in PinNames |-> NoPin]]
    /\ layout = FALSE
    /\ stateFile = NoFile
    /\ host = [system |-> "Linux", machine |-> "aarch64"]
    /\ disk \in {EmptyDisk, ForeignDisk(host)}

NextDownload ==
    \E p \in Procs :
        \/ \E r \in ConcurrentRequests : InstallStart(p, r.tool, r.version)
        \/ InstallStep(p)
        \/ \E r \in ConcurrentRequests :
              ReadBinary(p, r.tool, version_from_tag(tag_name_for(r.version)))

SpecDownload == InitDownload /\ [][NextDownload]_vars

\* ------------------------------------- specification: the global default
\* One process sets and reads global defaults, one call after the other,
\* starting from any state.json a user may have.

\* Documents found in state.json besides LegacyDoc and EditedDoc: the legacy
\* key and the mapping disagree; the mapping holds blank strings; the
\* document is a JSON array.
SplitDoc ==
    [dict |-> TRUE, global_default |-> JStr(V2), gds_dict |-> TRUE,
     global_defaults |-> [k \in Tools |-> IF k = "opa" THEN JStr(V1) ELSE JStr(V2)],
     extra |-> FALSE]
BlankDoc ==
    [dict |-> TRUE, global_default |-> JStr(V2), gds_dict |-> TRUE,
     global_defaults |-> [k \in Tools |-> JStr(<<" ">>)], extra |-> FALSE]
ListDoc == [default_state EXCEPT !.dict = FALSE]
StartDocs == {LegacyDoc, EditedDoc, SplitDoc, BlankDoc, ListDoc}

\* A state.json cut off in the middle of its JSON text, and one whose bytes
\* are not UTF-8.
TruncatedFile == [FullFile(LegacyDoc) EXCEPT !.len = 1]
UndecodableFile == [FullFile(LegacyDoc) EXCEPT !.utf8 = FALSE]

\* The version handed to set_global_default: padded, as a caller may pass it.
SetVersions == {<<" ", "2">>}

InitDefaults ==
    /\ InitCommon
    /\ host = [system |-> "Linux", machine |-> "x86_64"]
    /\ disk = EmptyDisk
    /\ pins = [d \in Dirs |-> [n \in PinNames |-> NoPin]]
    /\ \/ layout = FALSE /\ stateFile = NoFile
       \/ /\ layout = TRUE
          /\ stateFile \in {FullFile(d) : d \in StartDocs}
                              \cup {TruncatedFile, UndecodableFile}

NextDefaults ==
    \/ LoadStart("p1")
    \/ \E tool \in Tools : GetGlobalDefaultStart("p1", tool)
    \/ \E tool \in Tools, version \in SetVersions :
          SetGlobalDefaultStart("p1", tool, version)
    \/ StateStoreStep("p1")

SpecDefaults == InitDefaults /\ [][NextDefaults]_vars

\* ---------------------------------- specification: the release client
\* One process calls the functions of the release client and of platform
\* detection with arguments and an environment of any kind; res[p] holds
\* the last call, its arguments and its outcome.

Call(name, args, out) == [name |-> name, args |-> args, out |-> out]

PureCall(p, name, args, out) ==
    /\ res' = [res EXCEPT ![p] = Call(name, args, out)]
    /\ UNCHANGED <<host, disk, inst, layout, pc, op>>
    /\ UNCHANGED storeVars

\* Values of a repository environment variable: unset, a fork, the fork
\* padded with blanks, and three that are not owner/repo.
RepoEnvValues ==
    { None,
      Some(<<"acme", "/", "custom-opa">>),
      Some(<<" ", "acme", "/", "custom-opa", "\n">>),
      Some(<<"not-valid">>),
      Some(<<"acme", "/">>),
      Some(<<"a", "/", "b", "/", "c">>) }

\* github.configured_repo() is called while os.environ[OPAVM_GITHUB_REPO]
\* is `value`.
ConfiguredRepo(p, value) ==
    /\ pc[p] = "idle"
    /\ PureCall(p, "configured_repo", [tool |-> "opa", env |-> value],
                configured_repo(<<"open-policy-agent", "/", "opa">>))

\* The release lookup of a tool while its repository variable is `value`:
\* github.fetch_release(version, repo=spec.default_repo) as installer.install
\* calls it, or fetch_release(version) called directly (opa).
FetchRelease(p, tool, value, version, direct) ==
    /\ pc[p] = "idle"
    /\ direct => tool = "opa"
    /\ PureCall(p, "fetch_release",
                [tool |-> tool, env |-> value, version |-> version],
                release_url(version,
                            IF direct THEN None
                            ELSE Some(SUPPORTED_TOOLS[tool].default_repo)))

\* github.pick_asset_url(release, expected_names)
PickAssetUrl(p, assets, expected_names) ==
    /\ pc[p] = "idle"
    /\ PureCall(p, "pick_asset_url", [assets |-> assets, expected |-> expected_names],
                pick_asset_url(assets, expected_names))

\* platform.normalized_os_arch() on a host reporting (system, machine)
NormalizedOsArch(p, system, machine) ==
    /\ pc[p] = "idle"
    /\ PureCall(p, "normalized_os_arch", [system |-> system, machine |-> machine],
                normalized_os_arch([system |-> system, machine |-> machine]))

\* github._raise_friendly_http_error(exc)
RaiseFriendlyHttpError(p, exc) ==
    /\ pc[p] = "idle"
    /\ PureCall(p, "raise_friendly_http_error", exc, raise_friendly_http_error(exc))

\* Texts handed to parse_checksum_text: those a release may publish, the
\* empty text, blank lines only, two digest lines, and a line in the
\* "<name> <digest>" layout with the digest in upper case.
ParseInputs ==
    ChecksumTexts
    \cup { <<>>,
           << <<>>, <<>> >>,
           << <<BrokenDigest>>, <<GoodDigest>> >>,
           << <<Token(FALSE, 15, "name", FALSE), [BrokenDigest EXCEPT !.upper = TRUE]>>,
              <<>> >> }

\* download.parse_checksum_text(text)
ParseChecksumText(p, text) ==
    /\ pc[p] = "idle"
    /\ PureCall(p, "parse_checksum_text", text, parse_checksum_text(text))

\* What platform.system() and platform.machine() may report.
Systems == {"Darwin", "Linux", "linux", "Windows", "WINDOWS", "FreeBSD"}
Machines == {"x86_64", "AMD64", "aarch64", "arm64", "ARM64", "riscv64"}

\* Candidate lists installer._asset_candidates builds.
CandidateLists ==
    { asset_candidates(t, o, a) :
          t \in Tools, o \in {"darwin", "linux", "windows"}, a \in {"amd64", "arm64"} }

InitRelease ==
    /\ InitCommon
    /\ host = [system |-> "Linux", machine |-> "x86_64"]
    /\ disk = EmptyDisk
    /\ pins = [d \in Dirs |-> [n \in PinNames |-> NoPin]]
    /\ layout = FALSE
    /\ stateFile = NoFile

\* One caller makes the calls; a second caller repeats the error
\* translation, so that two of its results can stand side by side.
NextRelease ==
    \/ \E value \in RepoEnvValues : ConfiguredRepo("p1", value)
    \/ \E tool \in Tools, value \in RepoEnvValues,
            version \in {V1, <<"v", "1">>, LATEST}, direct \in BOOLEAN :
          FetchRelease("p1", tool, value, version, direct)
    \/ \E tool \in Tools, expected_names \in CandidateLists :
          \E assets \in ReleaseAssets(tool) :
              PickAssetUrl("p1", assets, expected_names)
    \/ \E system \in Systems, machine \in Machines :
          NormalizedOsArch("p1", system, machine)
    \/ \E p \in Procs, exc \in HttpErrors : RaiseFriendlyHttpError(p, exc)
    \/ \E text \in ParseInputs : ParseChecksumText("p1", text)

SpecRelease == InitRelease /\ [][NextRelease]_vars

\* ------------------------------------------ specification: the commands
\* One user runs the commands install, use, uninstall and list for both
\* tools, one command after the other, on a Linux host whose home holds a
\* version of opa installed under Windows.

\* cli.use(version, tool): refuses a version that is not installed, else
\* goes on with config.set_global_default.
Use(p, tool, version) ==
    /\ pc[p] = "idle"
    /\ IF ~is_installed(disk, normalized_os_arch(host).os, version, tool)
       THEN /\ res' = [res EXCEPT ![p] =
                         [name |-> "use", tool |-> tool, version |-> version,
                          start |-> 0, out |-> Raised("Version not installed.")]]
            /\ UNCHANGED <<pc, op>>
       ELSE /\ pc' = [pc EXCEPT ![p] = "load_exists"]
            /\ op' = [op EXCEPT ![p] =
                        [NoOp EXCEPT !.name = "set_global_default", !.tool = tool,
                                     !.version = version]]
            /\ UNCHANGED res
    /\ UNCHANGED instVars
    /\ UNCHANGED <<pins, stateFile, stateTmp, layout, mem, started, lastRename>>

\* cli.list_versions(tool): installer.installed_versions, whose list is
\* printed line by line.
ListVersions(p, tool) ==
    /\ pc[p] = "idle"
    /\ \E entries \in iterdir(disk, tool_versions_dir(tool)) :
          inst' = [inst EXCEPT ![p] =
                     [NoInst EXCEPT !.listed = installed_versions(disk, tool, entries)]]
    /\ res' = [res EXCEPT ![p] =
                 [name |-> "installed_versions", tool |-> tool, version |-> <<>>,
                  start |-> 0, out |-> Resolved(<<>>, "listed", 0, "")]]
    /\ UNCHANGED <<host, disk, layout, pc, op>>
    /\ UNCHANGED storeVars

\* What the user installs: opa by version and as "latest".
CliRequests ==
    { [tool |-> "opa", version |-> V1],
      [tool |-> "opa", version |-> LATEST] }

InitCli ==
    /\ InitCommon
    /\ pins = [d \in Dirs |-> [n \in PinNames |-> NoPin]]
    /\ layout = FALSE
    /\ stateFile = NoFile
    /\ host = [system |-> "Linux", machine |-> "x86_64"]
    /\ disk = ForeignDisk(host)

NextCli ==
    \/ \E r \in CliRequests : InstallStart("p1", r.tool, r.version)
    \/ InstallStep("p1")
    \/ \E tool \in Tools, version \in {V1, V2} : Use("p1", tool, version)
    \/ StateStoreStep("p1")
    \/ \E tool \in Tools, version \in {V1, V2} : Uninstall("p1", tool, version)
    \/ \E tool \in Tools : ListVersions("p1", tool)

SpecCli == InitCli /\ [][NextCli]_vars

\* ------------------------------------------------------------------ claims

\* The pin filename the documentation gives for a tool: ".<tool>-version".
PinNameOf(tool) == IF tool = "opa" THEN ".opa-version" ELSE ".regal-version"

\* A pin file of the tool with non-blank content in start or an ancestor.
HasNonBlankPin(start, tool) ==
    \E d \in 0 .. start :
        /\ pins[d][PinNameOf(tool)].ex
        /\ strip(pins[d][PinNameOf(tool)].text) # <<>>

HasPin(start, tool) == \E d \in 0 .. start : pins[d][PinNameOf(tool)].ex

\* C1: whenever a non-blank pin file of the tool exists in the start
\* directory or an ancestor, resolve_version returns the trimmed content of
\* such a pin file with reason "pinned via <path>", whatever the global
\* default is and whichever was written last.
C1_PinWins ==
    \A start \in Dirs, tool \in Tools :
        HasNonBlankPin(start, tool) =>
            LET r == resolve_version(pins, stateFile, start, tool)
            IN  /\ r.err = ""
                /\ r.reason = "pinned via"
                /\ r.pin_name = PinNameOf(tool)
                /\ r.pin_dir \in 0 .. start
                /\ pins[r.pin_dir][r.pin_name].ex
                /\ r.version = strip(pins[r.pin_dir][r.pin_name].text)

\* C2: with no pin file and no global default resolve_version raises
\* VersionNotConfiguredError ("No version configured."); once
\* set_global_default(tool, v) has returned, it returns (v, "global default").
C2_GlobalFallback ==
    \A start \in Dirs, tool \in Tools :
        ~HasPin(start, tool) =>
            LET r == resolve_version(pins, stateFile, start, tool)
                gd == global_default_of(load_state(stateFile).state, tool)
            IN  /\ ~gd.some => r.err = "No version configured."
                /\ \A p \in Procs :
                     ( /\ pc[p] = "idle"
                       /\ res[p].name = "set_global_default"
                       /\ res[p].tool = tool
                       /\ res[p].out.err = "" )
                     => r = Resolved(res[p].version, "global default", 0, "")

\* C3: each tool's descriptor supplies the pin filename ".<tool>-version",
\* and find_pin_file returns the file of exactly that name in start or an
\* ancestor, never the pin file of the other tool.
C3_PinFileOfTool ==
    \A start \in Dirs, tool \in Tools :
        LET f == find_pin_file(pins, start, tool)
        IN  /\ pin_filename(tool) = [ok |-> TRUE, val |-> PinNameOf(tool), err |-> ""]
            /\ f.ok
            /\ f.found <=> HasPin(start, tool)
            /\ f.found => /\ f.name = PinNameOf(tool)
                          /\ f.dir \in 0 .. start
                          /\ pins[f.dir][f.name].ex

\* C6: state.json is at every instant absent or the complete document of a
\* save that has started (or the initial content), and no reader ever gets
\* the corrupt-file error.
C6_NoTornStateFile ==
    /\ stateFile.ex =>
          /\ stateFile.len = DocLen
          /\ stateFile.doc \in started \cup InitDocs
    /\ \A p \in Procs : res[p].out.err # "Corrupt state file."

\* C6 witness: a reader has completed load_state of a saved document while
\* another process is in the middle of writing its temp file.
C6_Witness ==
    \E p, q \in Procs :
        /\ p # q
        /\ res[p].name = "load_state" /\ res[p].out.err = ""
        /\ stateFile.ex /\ stateFile.doc \in started
        /\ pc[q] = "save_write"
        /\ stateTmp[q].len > 0 /\ stateTmp[q].len < DocLen

\* C7: after any rename, state.json is exactly the complete document of the
\* process that renamed last.
C7_LastRenameWins ==
    lastRename.p # "none" => stateFile = FullFile(lastRename.doc)

\* C7 witness (the lost update): both processes have returned from
\* set_global_default, one for opa and one for regal, and the final
\* state.json holds regal's entry but not opa's.
C7_LostUpdate ==
    \E p, q \in Procs :
        /\ p # q
        /\ pc[p] = "idle" /\ pc[q] = "idle"
        /\ res[p].name = "set_global_default" /\ res[p].tool = "opa"
        /\ res[p].out.err = ""
        /\ res[q].name = "set_global_default" /\ res[q].tool = "regal"
        /\ res[q].out.err = ""
        /\ lastRename.p = q
        /\ stateFile.doc.global_defaults["regal"] = JStr(V1)
        /\ stateFile.doc.global_defaults["opa"] = JMissing

\* An install invocation of p has returned or raised and nothing ran since.
Completed(p) == pc[p] = "idle" /\ res[p].name = "install"

IsPrefix(s, t) == Len(s) <= Len(t) /\ SubSeq(t, 1, Len(s)) = s

Has(s, e) == \E i \in 1 .. Len(s) : s[i] = e

\* p is inside install(version, tool) and the operation it completed just
\* before was a successful install of the same (version, tool).
SecondInstall(p) ==
    /\ op[p].name = "install"
    /\ res[p].name = "install"
    /\ res[p].tool = op[p].tool
    /\ res[p].version = op[p].version
    /\ res[p].out.err = ""

\* C4: install is idempotent. A call of install(version, tool) that follows
\* a successful install of the same (version, tool) never reaches the
\* download step, the checksum step or verify_binary and never changes the
\* disk; when it returns, it returns the same resolved version as the first
\* call and its events are "resolving", "already_installed".
C4_InstallIdempotent ==
    [][\A p \in Procs :
          SecondInstall(p) =>
              /\ disk' = disk
              /\ pc'[p] \in {"i_check", "idle"}
              /\ (pc'[p] = "idle" /\ res'[p].out.err = "") =>
                    /\ res'[p].out = res[p].out
                    /\ inst'[p].events = <<"resolving", "already_installed">>
                    /\ inst'[p].calls.download = 0
                    /\ inst'[p].calls.checksum = 0
                    /\ inst'[p].calls.verify = 0]_vars

\* The second call stands at the is_installed test and the binary of the
\* resolved version is there.
C4_Witness ==
    \E p \in Procs :
        /\ SecondInstall(p)
        /\ pc[p] = "i_check"
        /\ op[p].version = <<"v", "1">>
        /\ is_installed(disk, normalized_os_arch(host).os, inst[p].resolved, op[p].tool)

\* install compared the digest parsed from the checksum asset with the
\* digest of the downloaded file.
Compared(p) == inst[p].expected_checksum # NoDigest

\* C5: when the release carries the "<asset>.sha256" asset and a digest was
\* parsed from it: if it equals the SHA-256 of the downloaded file, install
\* goes on to verify_binary and what it returns is the resolved version; if
\* it differs, install raises "Checksum verification failed.", verify_binary
\* is not run and neither "verifying" nor "done" is emitted.
C5_ChecksumDecides ==
    \A p \in Procs :
        Compared(p) =>
            /\ checksum_asset_url(inst[p].assets, inst[p].selected).some
            /\ pc[p] \in {"i_verify", "idle"}
            /\ pc[p] = "i_verify" =>
                  inst[p].expected_checksum = inst[p].actual_checksum
            /\ Completed(p) =>
                  /\ inst[p].actual_checksum =
                        sha256_file(file_at(disk,
                            platform_binary_path(inst[p].resolved,
                                normalized_os_arch(host).os, res[p].tool)))
                  /\ IF inst[p].expected_checksum = inst[p].actual_checksum
                     THEN /\ inst[p].calls.verify = 1
                          /\ Has(inst[p].events, "verifying")
                          /\ res[p].out.err \in
                                {"", "Installed binary failed verification."}
                          /\ res[p].out.err = "" =>
                                res[p].out.version = inst[p].resolved
                     ELSE /\ res[p].out.err = "Checksum verification failed."
                          /\ inst[p].calls.verify = 0
                          /\ ~Has(inst[p].events, "verifying")
                          /\ ~Has(inst[p].events, "done")

\* An install ended on a digest that differs from the downloaded file's.
C5_Witness ==
    \E p \in Procs :
        /\ Completed(p)
        /\ Compared(p)
        /\ inst[p].expected_checksum # inst[p].actual_checksum
        /\ res[p].out.err = "Checksum verification failed."

\* The final binary names of a version directory (all but the temp files).
BinaryNames == FileNames \ {TmpName(p) : p \in Procs}

WholeAndExecutable(file) == file.len = FileLen /\ file.exec

\* C8: while downloads run, a final binary path is absent or holds a fully
\* written file with the executable bits set (an earlier installation or
\* the one just renamed into place), and that is all a reader of the path
\* ever finds: partial bytes live in temp files only.
C8_BinaryNeverPartial ==
    /\ \A r \in Roots, v \in DirNames, n \in BinaryNames :
          exists(disk, Path(r, v, n)) => WholeAndExecutable(disk[r][v].files[n])
    /\ \A p \in Procs : inst[p].seen.ex => WholeAndExecutable(inst[p].seen)

\* One process is halfway through writing its temp file while the final
\* path holds the binary the other process installed, and the other process
\* has looked at it.
C8_Witness ==
    \E p, q \in Procs :
        /\ p # q
        /\ pc[p] = "d_write"
        /\ file_at(disk, Temp(p)).len \in 1 .. (FileLen - 1)
        /\ exists(disk, Target(p))
        /\ inst[q].seen.ex

AllowedEvents ==
    { <<"resolving", "already_installed">>,
      <<"resolving", "downloading", "verifying_checksum", "verifying", "done">>,
      <<"resolving", "downloading", "verifying", "done">> }

Last(s) == s[Len(s)]

C9_Events(p) ==
    LET ev == inst[p].events
        has_checksum_asset == checksum_asset_url(inst[p].assets, inst[p].selected).some
    IN  /\ \E t \in AllowedEvents : IsPrefix(ev, t)
        /\ Has(ev, "verifying_checksum") => has_checksum_asset
        /\ (Has(ev, "verifying") /\ has_checksum_asset) => Has(ev, "verifying_checksum")
        /\ Has(ev, "done") => inst[p].calls.verify = 1
        /\ Completed(p) =>
              (res[p].out.err = "" <=> Last(ev) \in {"done", "already_installed"})

\* C9: the events of one install invocation are "resolving",
\* "already_installed", or "resolving", "downloading", "verifying_checksum"
\* exactly when the release has a checksum asset, "verifying", "done", or a
\* prefix of one of these cut short by an error; "done" is emitted only in
\* the step in which verify_binary succeeded on the installed binary; and
\* install returns normally iff the last event is "done" or
\* "already_installed".
C9_EventSequence ==
    [][\A p \in Procs :
          /\ C9_Events(p)'
          /\ (Has(inst'[p].events, "done") /\ ~Has(inst[p].events, "done")) =>
                /\ pc[p] = "i_verify"
                /\ verify_binary(file_at(disk, Target(p)))]_vars

\* An install with a checksum asset ran through all five events.
C9_Witness ==
    \E p \in Procs :
        /\ Completed(p)
        /\ res[p].out.err = ""
        /\ inst[p].events =
              <<"resolving", "downloading", "verifying_checksum", "verifying", "done">>

\* C10: uninstall(version, tool) on a version whose binary is absent raises
\* "Version not installed." and changes nothing; otherwise it removes the
\* whole version directory, and every other version directory stays as it
\* was.
C10_Uninstall ==
    [][\A p \in Procs :
          (res'[p] # res[p] /\ res'[p].name = "uninstall") =>
              LET tool == res'[p].tool
                  version == res'[p].version
                  root == tool_versions_dir(tool)
              IN  IF ~is_installed(disk, normalized_os_arch(host).os, version, tool)
                  THEN /\ res'[p].out.err = "Version not installed."
                       /\ disk' = disk
                       /\ UNCHANGED <<stateFile, pins, layout>>
                  ELSE /\ res'[p].out.err = ""
                       /\ ~disk'[root][version].ex
                       /\ version \notin installed_set(disk', tool)
                       /\ \A r \in Roots, v \in DirNames :
                             <<r, v>> # <<root, version>> => disk'[r][v] = disk[r][v]]_vars

\* A version was uninstalled, its directory is gone and another version of
\* the same tool is still installed.
C10_Witness ==
    \E p \in Procs :
        /\ res[p].name = "uninstall"
        /\ res[p].out.err = ""
        /\ ~disk[tool_versions_dir(res[p].tool)][res[p].version].ex
        /\ installed_set(disk, res[p].tool) # {}

\* C11: resolved_binary_path(start, tool) returns a path only when the file
\* at that path exists; with no pin file and no global default it raises
\* "No version configured."; and when the global default names a version
\* whose binary is absent it raises "Version not installed." with the hint
\* "Run: opavm install [<tool>] <version>".
C11_ResolvedBinaryPath ==
    \A start \in Dirs, tool \in Tools :
        LET r == resolved_binary_path(pins, stateFile, disk,
                                      normalized_os_arch(host).os, start, tool)
            loaded == load_state(stateFile)
            gd == global_default_of(loaded.state, tool)
        IN  /\ r.err = "" => exists(disk, r.path)
            /\ (~HasPin(start, tool) /\ loaded.ok /\ ~gd.some) =>
                  r.err = "No version configured."
            /\ (~HasPin(start, tool) /\ loaded.ok /\ gd.some
                  /\ ~is_installed(disk, normalized_os_arch(host).os, gd.s, tool)) =>
                  /\ r.err = "Version not installed."
                  /\ r.hint = install_hint(tool, gd.s)

\* The step in which p's set_global_default renames its temp file onto
\* state.json.
RenameStep(p) ==
    /\ op[p].name = "set_global_default"
    /\ pc[p] = "save_replace"
    /\ pc'[p] = "save_finally"
    /\ op'[p].start = 0

\* C12: from any loadable state.json, set_global_default(t, v) with a
\* non-blank v changes state.json in one step only, after which
\* get_global_default(t) is v and get_global_default(u) of every other tool
\* u is what it was before; a call that returns has made that step.
C12_SetThenGet ==
    [][\A p \in Procs :
          op[p].name = "set_global_default" =>
              /\ IF RenameStep(p)
                 THEN /\ get_global_default(stateFile', op[p].tool) =
                            [err |-> "", val |-> Some(op[p].version)]
                      /\ \A u \in Tools \ {op[p].tool} :
                            get_global_default(stateFile', u) =
                               get_global_default(stateFile, u)
                 ELSE stateFile' = stateFile
              /\ (pc'[p] = "idle" /\ res'[p].out.err = "") =>
                    get_global_default(stateFile', op[p].tool).val =
                       Some(op[p].version)]_vars

\* After a padded version was set for opa over a state.json that had a
\* default for regal, get_global_default("regal") returned regal's default.
C12_Witness ==
    \E p \in Procs :
        /\ pc[p] = "idle"
        /\ res[p].name = "get_global_default"
        /\ res[p].tool = "regal"
        /\ res[p].out.version = V2
        /\ lastRename.p = p
        /\ stateFile.doc.global_defaults["opa"] = JStr(<<" ", "2">>)

\* The raw entries of the document in state.json.
RawEntry(file, tool) ==
    IF file.ex /\ file.doc.dict /\ file.doc.gds_dict
    THEN file.doc.global_defaults[tool] ELSE JMissing
RawLegacy(file) ==
    IF file.ex /\ file.doc.dict THEN file.doc.global_default ELSE JMissing

NonBlank(v) == isStr(v) /\ strip(v.s) # <<>>

\* The legacy key of state.json equals global_defaults["opa"].
Mirror(file) ==
    /\ isStr(RawEntry(file, "opa"))
    /\ RawLegacy(file) = RawEntry(file, "opa")

C13_Prefers ==
    load_state(stateFile).ok =>
        \A tool \in Tools :
            LET g == get_global_default(stateFile, tool).val
            IN  /\ IF NonBlank(RawEntry(stateFile, tool))
                   THEN g = Some(RawEntry(stateFile, tool).s)
                   ELSE IF tool = "opa" /\ NonBlank(RawLegacy(stateFile))
                   THEN g = Some(RawLegacy(stateFile).s)
                   ELSE g = None
                /\ \A p \in Procs :
                      (pc[p] = "idle" /\ res[p].name = "get_global_default"
                          /\ res[p].tool = tool) =>
                          /\ res[p].out.err = ""
                          /\ res[p].out.reason = (IF g.some THEN "value" ELSE "none")
                          /\ res[p].out.version = g.s

\* C13: get_global_default returns global_defaults[tool] when that is a
\* non-blank string; else, for opa only, the legacy key when that is a
\* non-blank string; else None (the legacy key is never returned for another
\* tool). Every rename by set_global_default("opa", v) makes the legacy key
\* equal to global_defaults["opa"], and every later rename keeps them equal.
C13_LegacyKey ==
    [][/\ C13_Prefers'
       /\ \A p \in Procs :
             RenameStep(p) =>
                 /\ op[p].tool = "opa" => Mirror(stateFile')
                 /\ Mirror(stateFile) => Mirror(stateFile')]_vars

\* A default for regal was set after one for opa, and the legacy key still
\* equals global_defaults["opa"].
C13_Witness ==
    \E p \in Procs :
        /\ pc[p] = "idle"
        /\ res[p].name = "set_global_default"
        /\ res[p].tool = "regal"
        /\ res[p].out.err = ""
        /\ Mirror(stateFile)
        /\ isStr(RawEntry(stateFile, "regal"))

\* The text of state.json parses as JSON.
Parseable(file) == file.ex /\ file.utf8 /\ file.len = DocLen

\* C14: load_state returns the default state when state.json is missing,
\* raises "Corrupt state file." when it is present but does not parse as
\* JSON, and for a file that parses returns, without raising, a state whose
\* global_defaults holds exactly the string entries of the file's
\* global_defaults and no other top-level key of the file.
C14_LoadState ==
    [][\A p \in Procs :
          (op[p].name = "load_state" /\ pc[p] # "idle" /\ pc'[p] = "idle") =>
              LET r == load_state(stateFile)
              IN  /\ ~stateFile.ex =>
                        (res'[p].out.err = "" /\ r.ok /\ r.state = default_state)
                  /\ (stateFile.ex /\ ~Parseable(stateFile)) =>
                        res'[p].out.err = "Corrupt state file."
                  /\ Parseable(stateFile) =>
                        /\ res'[p].out.err = ""
                        /\ r.ok
                        /\ ~r.state.extra
                        /\ \A k \in Tools :
                              r.state.global_defaults[k] =
                                 (IF isStr(RawEntry(stateFile, k))
                                  THEN RawEntry(stateFile, k) ELSE JMissing)]_vars

\* `value` is exactly two non-empty slash-separated segments.
OwnerRepo(value) ==
    LET parts == split(strip(value), "/")
    IN  Len(parts) = 2 /\ parts[1] # <<>> /\ parts[2] # <<>>

\* C15: with the tool's repository variable set to owner/repo,
\* configured_repo returns that value and fetch_release queries that
\* repository; set to anything else, GitHubLookupError ("Invalid repository
\* value.") is raised; unset, the tool's default repository is used.
C15_RepoOverride ==
    \A p \in Procs :
        (pc[p] = "idle" /\ res[p].name \in {"configured_repo", "fetch_release"}) =>
            LET env == res[p].args.env
                default_repo == SUPPORTED_TOOLS[res[p].args.tool].default_repo
                repo == IF res[p].name = "configured_repo" THEN res[p].out.repo
                        ELSE IF res[p].out.err = "" THEN res[p].out.url[2] ELSE <<>>
            IN  IF ~env.some THEN res[p].out.err = "" /\ repo = default_repo
                ELSE IF OwnerRepo(env.s) THEN res[p].out.err = "" /\ repo = strip(env.s)
                ELSE res[p].out.err = "Invalid repository value."

\* Positions of the candidates that name an asset of the release.
Matching(assets, expected_names) ==
    {i \in 1 .. Len(expected_names) :
        \E j \in 1 .. Len(assets) : assets[j].name = expected_names[i]}

\* C16: pick_asset_url returns the URL of the asset named by the earliest
\* candidate that names any asset of the release, wherever that asset
\* stands in the release's list; when no candidate names an asset it raises
\* the GitHubLookupError that names the expected candidates.
C16_PickAssetUrl ==
    \A p \in Procs :
        (pc[p] = "idle" /\ res[p].name = "pick_asset_url") =>
            LET assets == res[p].args.assets
                expected_names == res[p].args.expected
                matching == Matching(assets, expected_names)
            IN  IF matching = {}
                THEN /\ res[p].out.err = "No matching asset found"
                     /\ res[p].out.expected = expected_names
                ELSE LET first == CHOOSE i \in matching : \A k \in matching : i <= k
                     IN  /\ res[p].out.err = ""
                         /\ \E j \in 1 .. Len(assets) :
                               /\ assets[j].name = expected_names[first]
                               /\ res[p].out.url = assets[j].url

\* The release lists the "_static" fallback before the primary asset, and
\* the primary's URL was returned.
C16_Witness ==
    \E p \in Procs :
        /\ pc[p] = "idle"
        /\ res[p].name = "pick_asset_url"
        /\ Len(res[p].args.expected) = 2
        /\ Matching(res[p].args.assets, res[p].args.expected) = {1, 2}
        /\ res[p].args.assets[1].name = res[p].args.expected[2]
        /\ res[p].out.url = Asset(res[p].args.expected[1]).url

\* C18: normalized_os_arch maps darwin, linux and windows in any case to
\* themselves, x86_64 and amd64 to amd64, aarch64 and arm64 to arm64, and
\* raises UnsupportedPlatformError for any other system, any other machine
\* and for windows with arm64.
C18_NormalizedOsArch ==
    \A p \in Procs :
        (pc[p] = "idle" /\ res[p].name = "normalized_os_arch") =>
            LET system == res[p].args.system
                machine == res[p].args.machine
                os_name == CASE system \in {"Darwin"} -> "darwin"
                             [] system \in {"Linux", "linux"} -> "linux"
                             [] system \in {"Windows", "WINDOWS"} -> "windows"
                             [] OTHER -> "unknown"
                arch == CASE machine \in {"x86_64", "AMD64"} -> "amd64"
                          [] machine \in {"aarch64", "arm64", "ARM64"} -> "arm64"
                          [] OTHER -> "unknown"
            IN  IF os_name = "unknown" \/ arch = "unknown"
                   \/ (os_name = "windows" /\ arch = "arm64")
                THEN /\ ~res[p].out.ok
                     /\ res[p].out.err \in {"Unsupported OS", "Unsupported architecture"}
                ELSE /\ res[p].out.ok
                     /\ res[p].out.os = os_name
                     /\ res[p].out.arch = arch

\* Windows on ARM64 was rejected.
C18_Witness ==
    \E p \in Procs :
        /\ pc[p] = "idle"
        /\ res[p].name = "normalized_os_arch"
        /\ res[p].args = [system |-> "WINDOWS", machine |-> "ARM64"]
        /\ res[p].out.err = "Unsupported architecture"

\* C20: _raise_friendly_http_error depends on the exception type, the status
\* and the x-ratelimit-remaining header only, in this precedence: proxy
\* error; connect error; 403 with x-ratelimit-remaining "0" (rate limit,
\* advising OPAVM_GITHUB_TOKEN); 404 (not found); 401 or 403 (unauthorized);
\* any other status (generic, carrying the status); any other transport
\* error (generic connectivity hint). Equal inputs give equal (message, hint).
C20_FriendlyHttpError ==
    \A p \in Procs :
        (pc[p] = "idle" /\ res[p].name = "raise_friendly_http_error") =>
            LET exc == res[p].args
                out == res[p].out
                generic == "Failed to query GitHub releases."
            IN  /\ CASE exc.type = "ProxyError" ->
                          out.message = generic /\ out.hint = <<"Proxy error. Check HTTP_PROXY/HTTPS_PROXY or corporate proxy settings.">>
                     [] exc.type = "ConnectError" ->
                          out.message = generic /\ out.hint = <<"Network connection failed. Check internet connectivity, DNS, firewall, or VPN.">>
                     [] exc.type = "HTTPStatusError" /\ exc.status = "403"
                           /\ exc.remaining = "0" ->
                          /\ out.message = "GitHub API rate limit exceeded."
                          /\ out.hint[1] = "Set OPAVM_GITHUB_TOKEN or retry after the rate limit resets."
                     [] exc.type = "HTTPStatusError" /\ exc.status = "404" ->
                          out.message = "Requested release was not found."
                     [] exc.type = "HTTPStatusError" /\ exc.status \in {"401", "403"} ->
                          out.message = "GitHub request was unauthorized."
                     [] exc.type = "HTTPStatusError" ->
                          /\ out.message = generic
                          /\ out.hint = <<"GitHub API responded with HTTP ", exc.status, ".">>
                     [] OTHER ->
                          /\ out.message = generic
                          /\ out.hint = <<"Check network connectivity, proxy settings, or GitHub availability.">>
                /\ \A q \in Procs :
                      (pc[q] = "idle" /\ res[q].name = "raise_friendly_http_error"
                          /\ res[q].args = exc) => res[q].out = out

\* A 403 whose rate limit is exhausted was reported as the rate limit, while
\* the other process saw a 403 with requests remaining reported as
\* unauthorized.
C20_Witness ==
    \E p, q \in Procs :
        /\ res[p].name = "raise_friendly_http_error"
        /\ res[q].name = "raise_friendly_http_error"
        /\ res[p].args = [type |-> "HTTPStatusError", status |-> "403", remaining |-> "0"]
        /\ res[p].out.message = "GitHub API rate limit exceeded."
        /\ res[q].args = [type |-> "HTTPStatusError", status |-> "403", remaining |-> "1"]
        /\ res[q].out.message = "GitHub request was unauthorized."

\* p stands behind fetch_release and no candidate asset name of its
\* (tool, os, arch) names an asset of the fetched release.
NoCandidate(p) ==
    /\ pc[p] = "i_check"
    /\ Matching(inst[p].assets,
                asset_candidates(op[p].tool, normalized_os_arch(host).os,
                                 normalized_os_arch(host).arch)) = {}

\* install of p ends here with the error that names the expected assets;
\* "downloading" was not emitted, download_binary was not called and the
\* disk is as it was.
FailsBeforeDownload(p) ==
    /\ pc'[p] = "idle"
    /\ res'[p].out.err = "No matching asset found"
    /\ inst'[p].expected =
         asset_candidates(op[p].tool, normalized_os_arch(host).os,
                          normalized_os_arch(host).arch)
    /\ ~Has(inst'[p].events, "downloading")
    /\ inst'[p].calls.download = 0
    /\ disk' = disk

\* C17 as stated: whenever no candidate asset name matches an asset of the
\* fetched release, install raises the error naming the expected assets
\* before download_binary is called, "downloading" is not emitted and
\* nothing is created under the version root.
C17_AsStated ==
    [][\A p \in Procs : NoCandidate(p) => FailsBeforeDownload(p)]_vars

\* C17: when no candidate asset name matches an asset of the fetched release
\* and the resolved version is not installed already, install raises the
\* error naming the expected assets before download_binary is called,
\* "downloading" is not emitted and nothing is created under the version
\* root.
C17_NoAssetFailsEarly ==
    [][\A p \in Procs :
          (NoCandidate(p)
             /\ ~is_installed(disk, normalized_os_arch(host).os, inst[p].resolved,
                              op[p].tool))
          => FailsBeforeDownload(p)]_vars

\* install raised for want of an asset and the version directory does not
\* exist.
C17_Witness ==
    \E p \in Procs :
        /\ Completed(p)
        /\ res[p].out.err = "No matching asset found"
        /\ inst[p].expected # <<>>
        /\ inst[p].events = <<"resolving">>
        /\ ~disk[tool_versions_dir(res[p].tool)][inst[p].resolved].ex

\* C19: the canonical version is the release tag with one leading "v"
\* stripped. install queries the latest-release endpoint for "latest" and
\* else the tag endpoint with "v" prefixed unless present; a successful
\* install returns the canonical version and the binary stands in the
\* directory of that name; no directory named "latest" or by a tag exists.
C19_CanonicalVersion ==
    /\ \A p \in Procs :
          (Completed(p) /\ res[p].out.err = "") =>
              LET version == res[p].version
                  tag == IF version = LATEST THEN LatestTag
                         ELSE IF Head(version) = "v" THEN version
                         ELSE <<"v">> \o version
                  releases == <<"https://api.github.com/repos",
                                SUPPORTED_TOOLS[res[p].tool].default_repo, "releases">>
              IN  /\ inst[p].endpoint =
                        IF version = LATEST THEN releases \o <<"latest">>
                        ELSE releases \o <<"tags", tag>>
                  /\ res[p].out.version = Tail(tag)
                  /\ \E n \in FileNames :
                        exists(disk, Path(tool_versions_dir(res[p].tool), Tail(tag), n))
    /\ \A r \in Roots, d \in DirNames :
          disk[r][d].ex => (d # LATEST /\ Head(d) # "v")

\* install("v1") has downloaded and verified the binary of version "1".
C19_Witness ==
    \E p \in Procs :
        /\ Completed(p)
        /\ res[p].version = <<"v", "1">>
        /\ res[p].out.version = V1
        /\ Last(inst[p].events) = "done"
        /\ exists(disk, platform_binary_path(V1, normalized_os_arch(host).os, res[p].tool))

\* The directory of the pin file of the tool that is nearest to start
\* (start itself or its closest ancestor holding one).
NearestPin(start, tool) ==
    CHOOSE d \in 0 .. start :
        /\ pins[d][PinNameOf(tool)].ex
        /\ \A e \in (d + 1) .. start : ~pins[e][PinNameOf(tool)].ex

\* C24: resolve_version consults only the pin file nearest to the start
\* directory. When that file is non-blank after trimming, its trimmed
\* content is the version ("pinned via" that file); when it is blank, the
\* global default is returned, or "No version configured." is raised, even
\* if a farther ancestor holds a non-blank pin.
C24_NearestPinOnly ==
    [][\A p \in Procs :
          (pc[p] = "idle" /\ res'[p] # res[p] /\ res'[p].name = "resolve_version"
             /\ HasPin(res'[p].start, res'[p].tool)) =>
              LET start == res'[p].start
                  tool == res'[p].tool
                  d == NearestPin(start, tool)
                  pinned == strip(pins[d][PinNameOf(tool)].text)
                  gd == global_default_of(load_state(stateFile).state, tool)
              IN  IF pinned # <<>>
                  THEN res'[p].out = Resolved(pinned, "pinned via", d, PinNameOf(tool))
                  ELSE IF gd.some
                  THEN res'[p].out = Resolved(gd.s, "global default", 0, "")
                  ELSE res'[p].out = Raised("No version configured.")]_vars

\* The steps of install that may raise, in the order install runs them, and
\* the errors each of them raises: the release lookup with the choice of the
\* asset, download_binary, the checksum step, verify_binary.
StepErrors ==
    << {"GitHubLookupError", "Invalid repository value.", "No matching asset found"},
       {"Download failed.", "Install failed."},
       {"Checksum fetch failed.", "Invalid checksum file.",
        "Checksum verification failed."},
       {"Installed binary failed verification."} >>

\* How often the invocation of p has entered each of these steps.
StepCalls(p) ==
    << inst[p].calls.fetch, inst[p].calls.download,
       inst[p].calls.checksum, inst[p].calls.verify >>

\* C21: install neither retries nor recovers. In one invocation
\* fetch_release is called exactly once (also when the version is installed
\* already) and download_binary, the checksum fetch and verify_binary at
\* most once each; a step that raises ends the invocation: no later step has
\* run when install raises, and the DownloadError pending in download_binary
\* is the error the caller gets.
C21_NoRetry ==
    [][\A p \in Procs :
          /\ \A i \in 1 .. 4 : StepCalls(p)'[i] <= 1
          /\ Completed(p)' =>
                /\ inst'[p].calls.fetch = 1
                /\ \A i \in 1 .. 4 :
                      res'[p].out.err \in StepErrors[i] =>
                          /\ StepCalls(p)'[i] = 1
                          /\ \A j \in (i + 1) .. 4 : StepCalls(p)'[j] = 0
                /\ res'[p].out.err # "" =>
                      /\ \E i \in 1 .. 4 : res'[p].out.err \in StepErrors[i]
                      /\ Last(inst'[p].events) \notin {"done", "already_installed"}
          /\ (pc[p] = "d_finally" /\ inst[p].err # "") =>
                (pc'[p] = "idle" /\ res'[p].out.err = inst[p].err)]_vars

\* install raised at the checksum comparison: the release was fetched once,
\* the binary downloaded once, and verify_binary did not run.
C21_Witness ==
    \E p \in Procs :
        /\ Completed(p)
        /\ res[p].out.err = "Checksum verification failed."
        /\ StepCalls(p) = <<1, 1, 1, 0>>
        /\ Last(inst[p].events) = "verifying_checksum"

\* The tool the step of p works on: the tool of the install p is in or
\* enters, else the tool of the uninstall p has just made.
ActingTool(p) ==
    IF pc[p] # "idle" THEN op[p].tool
    ELSE IF pc'[p] # "idle" THEN op'[p].tool
    ELSE res'[p].tool

\* C22: the binaries of opa live under versions/<version>/ and those of any
\* other tool under tools/<tool>/versions/<version>/; no step of an install
\* or uninstall of one tool changes is_installed or the installed versions
\* of the other tool, whatever the version, nor state.json.
C22_ToolsIndependent ==
    /\ tool_versions_dir("opa") = <<"versions">>
    /\ \A t \in Tools \ {"opa"} : tool_versions_dir(t) = <<"tools", t, "versions">>
    /\ [][\A p \in Procs :
             (pc[p] # pc'[p] \/ res[p] # res'[p]) =>
                 /\ stateFile' = stateFile
                 /\ \A u \in Tools \ {ActingTool(p)} :
                       /\ installed_set(disk', u) = installed_set(disk, u)
                       /\ \A v \in DirNames :
                             is_installed(disk', normalized_os_arch(host).os, v, u)
                               = is_installed(disk, normalized_os_arch(host).os, v, u)]_vars

\* Version "1" of both tools was installed and regal's has just been
\* uninstalled: opa's is still there.
C22_Witness ==
    \E p \in Procs :
        /\ pc[p] = "idle"
        /\ res[p].name = "uninstall"
        /\ res[p].tool = "regal"
        /\ res[p].version = V1
        /\ res[p].out.err = ""
        /\ ~disk[tool_versions_dir("regal")][V1].ex
        /\ is_installed(disk, normalized_os_arch(host).os, V1, "opa")
        /\ verify_binary(file_at(disk, platform_binary_path(V1, normalized_os_arch(host).os, "opa")))

\* p is inside save_state.
InSave(p) == pc[p] \in {"save_mkstemp", "save_write", "save_replace", "save_finally"}

\* C23: when save_state returns, state.json is exactly the saved document
\* and no state.*.tmp file remains; when a step of save_state fails, the
\* temp file is removed and state.json keeps its previous content: the only
\* step of save_state that changes state.json is the rename, and a save
\* whose rename has happened does not fail (one process at a time).
C23_SaveState ==
    [][\A p \in Procs :
          InSave(p) =>
              /\ stateFile' # stateFile =>
                    (pc[p] = "save_replace" /\ pc'[p] = "save_finally"
                       /\ op'[p].start = 0)
              /\ pc'[p] = "idle" =>
                    /\ \A q \in Procs : ~stateTmp'[q].ex
                    /\ res'[p].out.err = "" => stateFile' = FullFile(mem[p])
                    /\ res'[p].out.err # "" => stateFile' = stateFile]_vars

\* A set_global_default failed inside save_state over an existing
\* state.json: the file is still one of the documents it started from and
\* the temp file is gone.
C23_Witness ==
    \E p \in Procs :
        /\ pc[p] = "idle"
        /\ res[p].name = "set_global_default"
        /\ res[p].out.err = "OSError"
        /\ ~stateTmp[p].ex
        /\ stateFile \in {FullFile(d) : d \in StartDocs}

\* All tokens of a text in reading order.
RECURSIVE Tokens(_)
Tokens(lines) == IF lines = <<>> THEN <<>> ELSE Head(lines) \o Tokens(Tail(lines))

\* The first tokens of the non-blank lines of a text, in order.
RECURSIVE FirstTokens(_)
FirstTokens(lines) ==
    IF lines = <<>> THEN <<>>
    ELSE IF Head(lines) = <<>> THEN FirstTokens(Tail(lines))
    ELSE <<Head(lines)[1]>> \o FirstTokens(Tail(lines))

IsHex64(tok) == tok.hex /\ tok.n = 64

\* parse_checksum_text has returned for p the first 64-hex token of `toks`,
\* lower-cased, or raised because there is none; a digest it returns equals
\* the SHA-256 of the file it was computed from, whatever its case in the
\* text.
ParsedFirstOf(p, toks) ==
    LET hits == {i \in 1 .. Len(toks) : IsHex64(toks[i])}
    IN  IF hits = {}
        THEN res[p].out.err = "Invalid checksum file."
        ELSE LET first == CHOOSE i \in hits : \A k \in hits : i <= k
             IN  /\ res[p].out.err = ""
                 /\ ~res[p].out.digest.upper
                 /\ res[p].out.digest.val = toks[first].val
                 /\ \A data \in Payloads :
                       toks[first].val = <<data, FileLen>> =>
                           ~checksum_mismatch(res[p].out.digest,
                               sha256_file([ex |-> TRUE, data |-> data,
                                            len |-> FileLen, exec |-> TRUE]))

Parsed(p) == pc[p] = "idle" /\ res[p].name = "parse_checksum_text"

\* C25 as stated: parse_checksum_text returns, lower-cased, the first
\* 64-hex-character token found anywhere on a non-blank line, and raises
\* DownloadError when the text holds no such token.
C25_AsStated ==
    \A p \in Procs : Parsed(p) => ParsedFirstOf(p, Tokens(res[p].args))

\* C25: parse_checksum_text looks at the first token of each non-blank line,
\* in order; it returns, lower-cased, the first of these that is 64 hex
\* characters (in either case) and raises DownloadError when no line begins
\* with such a token; a digest published in upper case still matches the
\* file's SHA-256.
C25_FirstTokenOfLine ==
    \A p \in Procs : Parsed(p) => ParsedFirstOf(p, FirstTokens(res[p].args))

\* The text with the digest in upper case after a blank line was parsed to
\* the lower-case digest of the good binary.
C25_Witness ==
    \E p \in Procs :
        /\ Parsed(p)
        /\ res[p].args = << <<>>, <<[GoodDigest EXCEPT !.upper = TRUE]>> >>
        /\ res[p].out.digest = GoodDigest

\* The file installer.binary_path names for the version the install of p
\* resolved.
InstalledBinary(p) ==
    file_at(disk, binary_path(disk, normalized_os_arch(host).os, inst[p].resolved,
                              res[p].tool))

\* C26: across any sequence of install calls, also after calls that failed
\* at the checksum or verify_binary step: whenever install returns normally
\* (last event "done" or "already_installed"), the binary at the version's
\* path passes verify_binary.
C26_OnlyVerifiedInstalled ==
    \A p \in Procs :
        (Completed(p) /\ res[p].out.err = "") =>
            /\ Last(inst[p].events) \in {"done", "already_installed"}
            /\ verify_binary(InstalledBinary(p))

\* p is inside download_binary.
InDownload(p) ==
    pc[p] \in {"d_mkstemp", "d_get", "d_write", "d_chmod", "d_replace", "d_finally"}

\* The step is one of p's own.
Acts(p) ==
    \/ pc'[p] # pc[p]
    \/ inst'[p] # inst[p]
    \/ file_at(disk', Temp(p)) # file_at(disk, Temp(p))

AllReturned == \A p \in Procs : Completed(p) /\ res[p].out.err = ""

\* What holds once all have returned: each got the resolved version, the
\* binary of that version is complete, executable and the one a download
\* delivered, and no opa.*.tmp file is left in the version directory.
AfterAllReturned ==
    LET os_name == normalized_os_arch(host).os
    IN  \A p \in Procs :
           /\ res[p].out.version = inst[p].resolved
           /\ res[p].out.version = version_from_tag(tag_name_for(res[p].version))
           /\ is_installed(disk, os_name, inst[p].resolved, res[p].tool)
           /\ WholeAndExecutable(InstalledBinary(p))
           /\ InstalledBinary(p).data \in Payloads
           /\ \A q \in Procs :
                 ~disk[tool_versions_dir(res[p].tool)][inst[p].resolved].files[TmpName(q)].ex

\* C30: when two processes install the same (tool, version) concurrently
\* and neither fails, both return the resolved version, each works on a temp
\* file of its own (no step of one changes the temp file of the other), and
\* once both have returned the final path holds a complete binary and no
\* opa.*.tmp file remains in the version directory.
C30_ConcurrentInstall ==
    [][/\ AllReturned' => AfterAllReturned'
       /\ \A p, q \in Procs :
             (p # q /\ pc'[p] # pc[p] /\ InDownload(p) /\ InDownload(q)) =>
                 /\ Temp(p) # Temp(q)
                 /\ file_at(disk', Temp(q)) = file_at(disk, Temp(q))]_vars

\* Both processes downloaded the binary at the same time and both returned
\* after "done".
C30_Witness ==
    /\ AllReturned
    /\ \A p \in Procs :
          /\ Last(inst[p].events) = "done"
          /\ inst[p].calls.download = 1
          /\ inst[p].calls.verify = 1

\* C27: between the commands install, use and uninstall, the global default
\* of a tool, when one is set, names a version that is installed for that
\* tool; and `use` of a version that is not installed fails with "Version
\* not installed." and leaves state.json as it was.
DefaultInstalled ==
    \A tool \in Tools :
        LET default == get_global_default(stateFile, tool)
        IN  (default.err = "" /\ default.val.some) =>
                is_installed(disk, normalized_os_arch(host).os, default.val.s, tool)
C27_DefaultNamesInstalled ==
    [][/\ (\A p \in Procs : pc'[p] = "idle") => DefaultInstalled'
       /\ \A p \in Procs :
             (res'[p] # res[p] /\ res'[p].name = "use") =>
                 /\ ~is_installed(disk, normalized_os_arch(host).os,
                                  res'[p].version, res'[p].tool)
                 /\ res'[p].out.err = "Version not installed."
                 /\ stateFile' = stateFile]_vars

\* C28: in every state of the disk, and for every order in which the
\* directory is read, installed_versions(tool) holds exactly the versions
\* for which is_installed(version, tool) is true, whether the binary is
\* there under its plain name or with ".exe", each once and in sorted
\* order; so does every list the command `list` has printed.
StrOrder == <<V1, V2, LATEST, <<"v", "1">>, <<"v", "2">>>>
Pos(v) == CHOOSE i \in 1..Len(StrOrder) : StrOrder[i] = v
ListsInstalled(l, tool) ==
    /\ \A v \in DirNames :
          is_installed(disk, normalized_os_arch(host).os, v, tool)
              <=> (\E i \in 1..Len(l) : l[i] = v)
    /\ \A i, j \in 1..Len(l) : i < j => Pos(l[i]) < Pos(l[j])
C28_ListedIffInstalled ==
    /\ \A tool \in Tools :
          \A entries \in iterdir(disk, tool_versions_dir(tool)) :
              ListsInstalled(installed_versions(disk, tool, entries), tool)
    /\ \A p \in Procs :
          (pc[p] = "idle" /\ res[p].name = "installed_versions") =>
              ListsInstalled(inst[p].listed, res[p].tool)
C28_Witness ==
    /\ pc["p1"] = "idle"
    /\ res["p1"].name = "installed_versions"
    /\ res["p1"].tool = "opa"
    /\ inst["p1"].listed = <<V1, V2>>
    /\ disk[<<"versions">>][V1].files[<<"opa", ".exe">>].ex
    /\ disk[<<"versions">>][V2].files[<<"opa", "">>].ex

====
